---- MODULE Spec2Model ----
(***************************************************************************)
(* Billing synchronisation layer: the sync routines that mirror the        *)
(* processor's plans, SKUs, invoices and invoice line items into the local *)
(* store, the action layer that calls the processor, and the month-range   *)
(* helper of the reporting layer.                                          *)
(*                                                                         *)
(* Conventions.  A JSON/Python value that may be None is a sequence of     *)
(* length at most one: None is <<>>, a present value v is <<v>>.  A        *)
(* Decimal is the integer number of hundredths it denotes.  A table of the *)
(* local store is a set of rows, each with a surrogate key pk.             *)
(***************************************************************************)
EXTENDS Integers, Sequences, FiniteSets, TLC

VARIABLES db, stripe, last, synced, report, web, card, flight, arrived

vars == <<db, stripe, last, synced, report, web, card, flight, arrived>>

(* ---------------------------------------------------------------- bounds *)

\* amounts of payloads range over 0..MaxAmount (smallest currency unit)
MaxAmount == 1
\* a plan payload carries at most MaxTiers tiers
MaxTiers == 2
\* an invoice payload carries at most MaxItems line items
MaxItems == 2
\* the reports are asked for the years FirstYear..FirstYear + MaxYearSpan
MaxYearSpan == 1
\* requests in flight at a time: webhook requests, change_card requests, and
\* routines of the invoice layer that wait for the processor
MaxRequests == 2

\* calls of the routines of the sync layer and the action layer that a run
\* follows from their arrival statement by statement
MaxCalls == 2

\* customers of a store the reports are asked of
MaxCustomers == 2

(* --------------------------------------------------------- Python values *)

None == <<>>

Some(v) == <<v>>

\* Python truthiness of an optional string
Truthy(o) == o # None /\ o[1] # ""

\* the Python expression  o or ""
OrEmpty(o) == IF Truthy(o) THEN o[1] ELSE ""

Max(S) == CHOOSE m \in S : \A n \in S : n <= m

\* F(v), with v computed once before F uses it (a statement's result held
\* in a local variable)
Then(v, F(_)) == CHOOSE y \in {F(x) : x \in {v}} : TRUE

(* ----------------------------------------------------------------- utils *)

\* str.lower() on the currency codes of the model
Lower(s) == CASE s = "JPY" -> "jpy"
              [] s = "USD" -> "usd"
              [] OTHER -> s

\* settings.PINAX_STRIPE_SEND_EMAIL_RECEIPTS, the default of send_receipt
SEND_EMAIL_RECEIPTS == TRUE

ZERO_DECIMAL_CURRENCIES == {"jpy", "krw"}

\* amount / Decimal("100"), or Decimal(amount) for a zero-decimal currency;
\* the result is in hundredths
convert_amount_for_db(amount, currency) ==
    LET c == IF currency = None THEN "usd" ELSE currency[1]
    IN  IF Lower(c) \notin ZERO_DECIMAL_CURRENCIES THEN amount ELSE amount * 100

\* the datetime of a timestamp field, None when the field is missing or falsy
convert_tstamp(o) == IF o = None \/ o[1] = 0 THEN None ELSE Some([utc |-> o[1]])

(* ------------------------------------------------------------- ORM tables *)

Matching(table, sid) == {r \in table : r.stripe_id = sid}

\* the key the database gives the next row of a table
NextPk(table) == 1 + Max({r.pk : r \in table} \cup {0})

\* Model.save() of an existing row
Save(table, row) == {r \in table : r.pk # row.pk} \cup {row}

\* QuerySet.first(): the matching row of least pk
First(rows) == CHOOSE r \in rows : \A q \in rows : r.pk <= q.pk

\* Manager.get_or_create(stripe_id=sid, defaults=defaults) on the rows `scope`
\* of `table`; a row it creates carries `extra` (the relation's foreign key)
get_or_create(table, scope, sid, defaults, extra) ==
    LET m == Matching(scope, sid)
    IN  IF Cardinality(m) > 1
        THEN [raised |-> "MultipleObjectsReturned", created |-> FALSE,
              obj |-> First(m), table |-> table]
        ELSE IF m = {}
        THEN LET row == [pk |-> NextPk(table), stripe_id |-> sid] @@ extra @@ defaults
             IN  [raised |-> "", created |-> TRUE, obj |-> row,
                  table |-> table \cup {row}]
        ELSE [raised |-> "", created |-> FALSE, obj |-> First(m), table |-> table]

\* utils.update_with_defaults(obj, defaults, created)
update_with_defaults(table, obj, defaults, created) ==
    IF ~created
    THEN LET row == defaults @@ obj
         IN  [obj |-> row, table |-> Save(table, row)]
    ELSE [obj |-> obj, table |-> table]

\* the rows of a set in key order
RECURSIVE ByPk(_)
ByPk(rows) ==
    IF rows = {} THEN <<>>
    ELSE LET r == First(rows) IN <<r>> \o ByPk(rows \ {r})

(* -------------------------------------------------------- processor errors *)

\* smart_str(e) is the error's message, here its sequence of words
IsPrefix(p, s) == Len(p) <= Len(s) /\ SubSeq(s, 1, Len(p)) = p

\* str.find(needle): the first index where needle occurs, -1 when nowhere
Find(s, needle) ==
    LET hits == {i \in 1..(Len(s) + 1) : IsPrefix(needle, SubSeq(s, i, Len(s)))}
    IN  IF hits = {} THEN -1 ELSE (CHOOSE i \in hits : \A j \in hits : i <= j) - 1

\* str.endswith(suffix)
EndsWith(s, suffix) ==
    Len(suffix) <= Len(s) /\ SubSeq(s, Len(s) - Len(suffix) + 1, Len(s)) = suffix

InvalidRequestError(msg) == [type |-> "InvalidRequestError", msg |-> msg]

NoSuch(kind, id) == InvalidRequestError(<<"No", "such", kind, ":", id>>)

NothingToInvoice == InvalidRequestError(<<"Nothing", "to", "invoice", "for", "customer">>)

\* errors the processor may raise on any call
OtherErrors == {InvalidRequestError(<<"Invalid", "API", "Key">>),
                [type |-> "APIConnectionError", msg |-> <<"Connection", "refused">>]}

CardError == [type |-> "CardError", msg |-> <<"Your", "card", "was", "declined">>]

Ok(v) == [ok |-> TRUE, value |-> v]

Raise(e) == [ok |-> FALSE, error |-> e]

(* ----------------------------------------------------- routines in flight *)

(* The routines run statement by statement.  Every statement that reads or
   writes the local store is a step of its own, and so is every answer of
   the processor a routine waits for; other requests take their steps in
   between, for the code opens no transaction and takes no lock.  A frame is
   a routine on its way: the label of the statement it has come to or of the
   answer it waits for (pc), the payload it syncs and the payloads still to
   sync, the objects it holds in memory, the processor calls it has made. *)

\* one call of the processor
Call(api, id) == [api |-> api, id |-> id]

\* the answer handed to a statement that asks the processor nothing
NotAsked == Raise([type |-> "", msg |-> <<>>])

\* any call of the processor may fail on its way
Fails == {Raise(e) : e \in OtherErrors}

NoFlight ==
    [op |-> "", arg |-> None, pc |-> "idle", receipt |-> FALSE,
     payload |-> None, rest |-> <<>>, product |-> None, c |-> None,
     charge |-> None, subscription |-> None, invoice |-> None, obj |-> None,
     created |-> FALSE, lines |-> <<>>, plan |-> None,
     item_subscription |-> None, got |-> None,
     answers |-> <<>>, calls |-> <<>>, raised |-> "", result |-> None]

\* the frame of a routine that has been called
Flight(op, arg) == [NoFlight EXCEPT !.op = op, !.arg = arg]

\* the routine has returned `result`, or `raised` has left it
Finish(f, raised, result) ==
    [NoFlight EXCEPT !.op = f.op, !.arg = f.arg, !.pc = "done",
                     !.answers = f.answers, !.calls = f.calls,
                     !.raised = raised, !.result = result]

\* the routine has called the processor and waits at `pc` for the answer
Asks(f, pc, api, id) == [f EXCEPT !.pc = pc, !.calls = Append(@, Call(api, id))]

\* the local store and the frame a step leaves
At(d, f) == [db |-> d, f |-> f]

(* ------------------------------------------------------------------ plans *)

PlanIds == {"gold"}

Amounts == 0..MaxAmount

\* the (currency, statement_descriptor) pairs of the plan payloads
PlanShapes == {[currency |-> Some("usd"), statement_descriptor |-> Some("GOLD")],
               [currency |-> Some("JPY"), statement_descriptor |-> None],
               [currency |-> None, statement_descriptor |-> Some("")]}

\* a graduated schedule of n tiers; the last tier is open-ended
TierList(n) ==
    [i \in 1..n |-> [amount |-> i % (MaxAmount + 1), flat_amount |-> 1,
                     up_to |-> IF i = n THEN None ELSE Some(5 * i)]]

\* the plan objects the processor's API can hand over
PlanPayloads ==
    {[id |-> i, amount |-> a, currency |-> sh.currency, interval |-> "month",
      interval_count |-> 1, name |-> "Gold",
      statement_descriptor |-> sh.statement_descriptor,
      trial_period_days |-> None, metadata |-> <<>>,
      billing_scheme |-> IF n = 0 THEN "per_unit" ELSE "tiered",
      tiers_mode |-> IF n = 0 THEN None ELSE Some("graduated"),
      tiers |-> TierList(n)] :
        i \in PlanIds, a \in Amounts, sh \in PlanShapes, n \in 0..MaxTiers}

PlanDefaults(plan) ==
    [amount |-> convert_amount_for_db(plan.amount, plan.currency),
     currency |-> OrEmpty(plan.currency),
     interval |-> plan.interval,
     interval_count |-> plan.interval_count,
     name |-> plan.name,
     statement_descriptor |-> OrEmpty(plan.statement_descriptor),
     trial_period_days |-> plan.trial_period_days,
     metadata |-> plan.metadata,
     billing_scheme |-> plan.billing_scheme,
     tiers_mode |-> plan.tiers_mode]

\* the versions the processor's plan goes through while requests are in
\* flight: with no tier, one tier and more, and in another currency
PlanVersions ==
    {p \in PlanPayloads : p.amount = MaxAmount /\ p.currency = Some("usd")}
    \cup {p \in PlanPayloads : p.amount = 0 /\ p.currency = Some("JPY")
                                /\ Len(p.tiers) = 1}

\* sync_plan(plan) is entered: its first statement is the get_or_create
sync_plan_begin(f, plan) ==
    [f EXCEPT !.payload = Some(plan), !.obj = None, !.created = FALSE,
              !.lines = <<>>, !.got = None, !.pc = "plan_row"]

\* sync_plan returns, to the loop of sync_plans when that has called it
PlanReturns(d, f) ==
    IF f.op = "sync_plans" /\ f.rest # <<>>
    THEN At(d, sync_plan_begin([f EXCEPT !.rest = Tail(@)], Head(f.rest)))
    ELSE At(d, Finish(f, "", None))

\* if plan["tiers"]:
PlanTiers(d, f) ==
    IF f.payload[1].tiers # <<>> THEN At(d, [f EXCEPT !.pc = "tiers_clear"])
    ELSE PlanReturns(d, f)

\* obj, created = models.Plan.objects.get_or_create(stripe_id=..., defaults=...);
\* update_with_defaults saves nothing for a row just created
PlanRow(d, f) ==
    LET plan == f.payload[1]
        g == get_or_create(d.plans, d.plans, plan.id, PlanDefaults(plan), << >>)
    IN  IF g.raised # "" THEN At(d, Finish(f, g.raised, None))
        ELSE IF g.created
        THEN PlanTiers([d EXCEPT !.plans = g.table],
                       [f EXCEPT !.obj = Some(g.obj), !.created = TRUE])
        ELSE At(d, [f EXCEPT !.obj = Some(g.obj), !.pc = "plan_update"])

\* utils.update_with_defaults(obj, defaults, created) for a row that existed
PlanUpdate(d, f) ==
    LET u == update_with_defaults(d.plans, f.obj[1], PlanDefaults(f.payload[1]), FALSE)
    IN  PlanTiers([d EXCEPT !.plans = u.table], [f EXCEPT !.obj = Some(u.obj)])

\* a sync_plan that does not delete the plan's tiers before it adds the
\* payload's
TiersKept(d, f) ==
    At(d, [f EXCEPT !.lines = f.payload[1].tiers, !.pc = "tier_create"])

\* obj.tiers.all().delete()
TiersClear(d, f) ==
    At([d EXCEPT !.tiers = {t \in @ : t.plan # f.obj[1].pk}],
       [f EXCEPT !.lines = f.payload[1].tiers, !.pc = "tier_create"])

\* tier_obj = models.Tier.objects.create(plan=obj, amount=..., ...)
TierCreate(d, f) ==
    LET t == Head(f.lines)
        currency == f.payload[1].currency
        row == [pk |-> NextPk(d.tiers), plan |-> f.obj[1].pk,
                amount |-> convert_amount_for_db(t.amount, currency),
                flat_amount |-> convert_amount_for_db(t.flat_amount, currency),
                up_to |-> t.up_to]
    IN  At([d EXCEPT !.tiers = @ \cup {row}],
           [f EXCEPT !.got = Some(row.pk), !.pc = "tier_add"])

\* obj.tiers.add(tier_obj): the Tier row of that key, if it is still there,
\* is given the plan
TierAdd(d, f) ==
    LET linked == [d EXCEPT !.tiers =
                      {IF t.pk = f.got[1] THEN [t EXCEPT !.plan = f.obj[1].pk] ELSE t :
                          t \in @}]
    IN  IF Tail(f.lines) # <<>>
        THEN At(linked, [f EXCEPT !.lines = Tail(@), !.got = None, !.pc = "tier_create"])
        ELSE PlanReturns(linked, [f EXCEPT !.lines = <<>>, !.got = None])

\* plans.sync_plans(), answered by stripe.Plan.auto_paging_iter(): sync_plan
\* for every plan listed
sync_plans(d, f, out) ==
    IF ~out.ok THEN At(d, Finish(f, out.error.type, None))
    ELSE IF out.value = <<>> THEN At(d, Finish(f, "", None))
    ELSE At(d, sync_plan_begin([f EXCEPT !.rest = Tail(out.value)], Head(out.value)))

PlanLabels == {"plan_row", "plan_update", "tiers_clear", "tier_create", "tier_add"}

(* ------------------------------------------------------------------- skus *)

SkuIds == {"sku_1", "sku_2"}

ProductIds == {"prod_1"}

\* the SKU objects the processor's API can hand over
SkuPayloads ==
    {[id |-> i, product |-> pr, price |-> a, currency |-> Some("usd"),
      attributes |-> <<>>, image |-> None, inventory |-> "infinite",
      livemode |-> FALSE, metadata |-> <<>>, package_dimensions |-> None,
      active |-> act, updated |-> Some(1)] :
        i \in SkuIds, pr \in ProductIds \cup {"prod_9"}, a \in Amounts,
        act \in BOOLEAN}

\* models.Product.objects.get(stripe_id=...): the row, or DoesNotExist
GetProduct(d, sid) ==
    LET m == Matching(d.products, sid)
    IN  IF m = {} THEN [raised |-> "DoesNotExist"]
        ELSE IF Cardinality(m) > 1 THEN [raised |-> "MultipleObjectsReturned"]
        ELSE [raised |-> "", obj |-> First(m)]

SkuFields(stripe_sku, product) ==
    [product |-> product.pk,
     price |-> convert_amount_for_db(stripe_sku.price, stripe_sku.currency),
     currency |-> stripe_sku.currency,
     attributes |-> stripe_sku.attributes,
     image |-> stripe_sku.image,
     inventory |-> stripe_sku.inventory,
     livemode |-> stripe_sku.livemode,
     metadata |-> stripe_sku.metadata,
     package_dimensions |-> stripe_sku.package_dimensions,
     active |-> stripe_sku.active,
     updated |-> convert_tstamp(stripe_sku.updated)]

\* sync_sku_from_stripe_data(stripe_sku) is entered: its first statement is
\* the lookup of the product
sync_sku_begin(f, stripe_sku) ==
    [f EXCEPT !.payload = Some(stripe_sku), !.product = None, !.obj = None,
              !.got = None, !.pc = "sku_product"]

\* sync_sku_from_stripe_data returns obj: to its caller, to skus.create,
\* which returns it in turn, or to the loop of sync_skus_from_product, which
\* returns nothing when the list is done
SkuReturns(d, f, obj) ==
    IF f.op = "sync_skus_from_product"
    THEN IF f.rest # <<>>
         THEN At(d, sync_sku_begin([f EXCEPT !.rest = Tail(@)], Head(f.rest)))
         ELSE At(d, Finish(f, "", None))
    ELSE At(d, Finish(f, "", Some(obj)))

\* product = models.Product.objects.get(stripe_id=stripe_sku["product"])
SkuProduct(d, f) ==
    LET p == GetProduct(d, f.payload[1].product)
    IN  IF p.raised # "" THEN At(d, Finish(f, p.raised, None))
        ELSE At(d, [f EXCEPT !.product = Some(p.obj),
                             !.pc = IF f.pc = "sku_product" THEN "sku_row"
                                    ELSE "listed_row"])

\* obj, _ = models.Sku.objects.get_or_create(stripe_id=stripe_sku["id"])
SkuRow(d, f) ==
    LET g == get_or_create(d.skus, d.skus, f.payload[1].id, << >>, << >>)
    IN  IF g.raised # "" THEN At(d, Finish(f, g.raised, None))
        ELSE At([d EXCEPT !.skus = g.table], [f EXCEPT !.obj = Some(g.obj), !.pc = "sku_save"])

\* obj.product = product; ...; obj.save()
SkuSave(d, f) ==
    LET row == SkuFields(f.payload[1], f.product[1]) @@ f.obj[1]
    IN  SkuReturns([d EXCEPT !.skus = Save(@, row)], f, row)

\* the loop of skus.sync_skus() at the next SKU listed
NextListedSku(d, f) ==
    IF f.rest = <<>> THEN At(d, Finish(f, "", None))
    ELSE At(d, [f EXCEPT !.payload = Some(Head(f.rest)), !.rest = Tail(@),
                         !.product = None, !.obj = None, !.pc = "listed_product"])

\* obj, created = models.Sku.objects.get_or_create(stripe_id=..., defaults=...)
ListedRow(d, f) ==
    LET stripe_sku == f.payload[1]
        g == get_or_create(d.skus, d.skus, stripe_sku.id,
                           SkuFields(stripe_sku, f.product[1]), << >>)
    IN  IF g.raised # "" THEN At(d, Finish(f, g.raised, None))
        ELSE IF g.created THEN NextListedSku([d EXCEPT !.skus = g.table], f)
        ELSE At(d, [f EXCEPT !.obj = Some(g.obj), !.pc = "listed_update"])

\* utils.update_with_defaults(obj, defaults, created) for a row that existed
ListedUpdate(d, f) ==
    LET u == update_with_defaults(d.skus, f.obj[1],
                                  SkuFields(f.payload[1], f.product[1]), FALSE)
    IN  NextListedSku([d EXCEPT !.skus = u.table], f)

\* skus.sync_skus(), answered by stripe.SKU.auto_paging_iter(): every SKU
\* the processor lists
sync_skus(d, f, out) ==
    IF ~out.ok THEN At(d, Finish(f, out.error.type, None))
    ELSE NextListedSku(d, [f EXCEPT !.rest = out.value])

\* product.stripe_product has been answered: product.stripe_product.skus.list()
ProductAnswered(d, f, out) ==
    IF ~out.ok THEN At(d, Finish(f, out.error.type, None))
    ELSE At(d, Asks(f, "product_skus", "SKU.list", f.arg[1]))

\* skus.sync_skus_from_product(product), answered by skus.list():
\* sync_sku_from_stripe_data for every SKU listed for the product
sync_skus_from_product(d, f, out) ==
    IF ~out.ok THEN At(d, Finish(f, out.error.type, None))
    ELSE IF out.value = <<>> THEN At(d, Finish(f, "", None))
    ELSE At(d, sync_sku_begin([f EXCEPT !.rest = Tail(out.value)], Head(out.value)))

SkuLabels ==
    {"sku_product", "sku_row", "sku_save", "listed_product", "listed_row",
     "listed_update"}

\* utils.convert_amount_for_api(amount, currency): int(amount * 100), or
\* int(amount) for a zero-decimal currency; amount is in hundredths
convert_amount_for_api(amount, currency) ==
    LET c == IF currency = None THEN "usd" ELSE currency[1]
    IN  IF Lower(c) \notin ZERO_DECIMAL_CURRENCIES THEN amount ELSE amount \div 100

\* the keyword arguments skus.create passes to stripe.SKU.create; a falsy
\* optional argument (None, an empty dictionary, False) is left out
SkuParams(product, price, inventory, currency, attributes, image, metadata, package_dimensions, active) ==
    (IF active THEN [active |-> active] ELSE << >>)
    @@ (IF package_dimensions # None /\ package_dimensions # Some(<<>>)
        THEN [package_dimensions |-> package_dimensions[1]]
        ELSE << >>)
    @@ (IF metadata # None /\ metadata # Some(<<>>) THEN [metadata |-> metadata[1]]
        ELSE << >>)
    @@ (IF Truthy(image) THEN [image |-> image[1]] ELSE << >>)
    @@ (IF attributes # None /\ attributes # Some(<<>>) THEN [attributes |-> attributes[1]]
        ELSE << >>)
    @@ [product |-> product.stripe_id,
        price |-> convert_amount_for_api(price, Some(currency)),
        inventory |-> inventory,
        currency |-> currency]

\* stripe.SKU.create(**params): the object the processor creates; a SKU
\* created without the active parameter is active
StripeSkuCreate(s, params) ==
    [id |-> CHOOSE i \in SkuIds : \A k \in 1..Len(s.skus) : s.skus[k].id # i,
     product |-> params.product, price |-> params.price,
     currency |-> Some(params.currency),
     attributes |-> IF "attributes" \in DOMAIN params THEN params.attributes ELSE <<>>,
     image |-> IF "image" \in DOMAIN params THEN Some(params.image) ELSE None,
     inventory |-> params.inventory, livemode |-> FALSE,
     metadata |-> IF "metadata" \in DOMAIN params THEN params.metadata ELSE <<>>,
     package_dimensions |-> IF "package_dimensions" \in DOMAIN params
                            THEN Some(params.package_dimensions) ELSE None,
     active |-> IF "active" \in DOMAIN params THEN params.active ELSE TRUE,
     updated |-> Some(1)]

(* --------------------------------------------------------------- invoices *)

InvoiceIds == {"in_1"}

CustomerIds == {"cus_1"}

\* the charge the processor makes for an invoice
ChargeOf(invoice_id) == IF invoice_id = "in_1" THEN "ch_1" ELSE "ch_2"

RECURSIVE SeqsUpTo(_, _)
SeqsUpTo(S, n) ==
    IF n = 0 THEN {<<>>}
    ELSE LET shorter == SeqsUpTo(S, n - 1)
         IN  shorter \cup {Append(q, x) : q \in shorter, x \in S}

\* the line items of invoice.lines.data: two invoice items that share an id
\* and a subscription line, whose id is the subscription's
SetupItem ==
    [id |-> "ii_1", type |-> "invoiceitem", amount |-> MaxAmount,
     currency |-> Some("usd"), proration |-> FALSE,
     description |-> Some("setup"), plan |-> None, quantity |-> None,
     period |-> [start |-> Some(1), end |-> Some(2)]]

ProratedItem ==
    [id |-> "ii_1", type |-> "invoiceitem", amount |-> 0,
     currency |-> Some("JPY"), proration |-> TRUE,
     description |-> None, plan |-> None, quantity |-> Some(1),
     period |-> [start |-> Some(1), end |-> None]]

SubscriptionLine ==
    [id |-> "sub_1", type |-> "subscription", amount |-> 1,
     currency |-> Some("usd"), proration |-> FALSE,
     description |-> None, plan |-> Some([id |-> "gold"]), quantity |-> Some(1),
     period |-> [start |-> Some(1), end |-> Some(2)]]

ItemPayloads == {SetupItem, ProratedItem, SubscriptionLine}

\* the line lists of a payload: up to MaxItems lines, no line twice
ItemLists ==
    {q \in SeqsUpTo(ItemPayloads, MaxItems) :
        \A i \in 1..Len(q), j \in 1..Len(q) : i # j => q[i] # q[j]}

RECURSIVE SumAmounts(_)
SumAmounts(items) ==
    IF items = <<>> THEN 0 ELSE Head(items).amount + SumAmounts(Tail(items))

\* the drafts the processor holds while requests are in flight: one with
\* nothing due, and one with something due, with or without a subscription
Drafts ==
    {[lines |-> <<ProratedItem>>, subscription |-> None],
     [lines |-> <<SetupItem, SubscriptionLine>>, subscription |-> None],
     [lines |-> <<SetupItem, SubscriptionLine>>, subscription |-> Some("sub_1")]}

\* an open invoice as the processor creates it for a customer
NewInvoice(id, customer, items, sub) ==
    [id |-> id, customer |-> customer, period_start |-> Some(1),
     period_end |-> Some(2), date |-> Some(2), subscription |-> sub,
     charge |-> None, attempted |-> FALSE, attempt_count |-> 0,
     amount_due |-> SumAmounts(items), currency |-> Some("usd"),
     closed |-> FALSE, paid |-> FALSE, subtotal |-> SumAmounts(items),
     tax |-> None, tax_percent |-> None, total |-> SumAmounts(items),
     metadata |-> <<>>, receipt_number |-> None, lines |-> [data |-> items]]

\* the invoice after the processor has charged it
PaidInvoice(inv) ==
    [inv EXCEPT !.paid = TRUE, !.closed = TRUE, !.attempted = TRUE,
                !.attempt_count = 1, !.charge = Some(ChargeOf(inv.id)),
                !.receipt_number = Some("0001")]

\* models.Customer.objects.get(stripe_id=...)
GetCustomer(d, sid) ==
    LET m == Matching(d.customers, sid)
    IN  IF m = {} THEN [raised |-> "DoesNotExist"]
        ELSE IF Cardinality(m) > 1 THEN [raised |-> "MultipleObjectsReturned"]
        ELSE [raised |-> "", obj |-> First(m)]

\* charges.sync_charge(charge_id), once the processor has handed the charge:
\* the local Charge row of that id
sync_charge(d, charge_id) ==
    get_or_create(d.charges, d.charges, charge_id,
                  [invoice |-> None, receipt_sent |-> FALSE], << >>)

\* hooks.hookset.send_receipt(charge): the receipt goes out once
send_receipt(d, charge) ==
    [d EXCEPT !.charges = Save(@, [charge EXCEPT !.receipt_sent = TRUE])]

\* subscriptions.retrieve(customer, sub_id)
subscriptions_retrieve(s, customer, sub_id) ==
    IF sub_id = None THEN Ok(None)
    ELSE LET m == {x \in s.subscriptions : x.id = sub_id[1]}
         IN  IF m = {} THEN Raise(NoSuch("subscription", sub_id[1]))
             ELSE LET x == CHOOSE x \in m : TRUE
                  IN  IF x.customer # customer.stripe_id THEN Ok(None) ELSE Ok(Some(x))

\* subscriptions.sync_subscription_from_stripe_data(customer, subscription)
sync_subscription_from_stripe_data(d, customer, sub) ==
    LET pl == Matching(d.plans, sub.plan)
        defaults == [customer |-> customer.pk,
                     plan |-> IF pl = {} THEN None ELSE Some(First(pl).pk),
                     status |-> sub.status]
        g == get_or_create(d.subscriptions, d.subscriptions, sub.id, defaults, << >>)
        u == update_with_defaults(g.table, g.obj, defaults, g.created)
    IN  [db |-> [d EXCEPT !.subscriptions = u.table], obj |-> u.obj]

\* the row a foreign key points at
ByKey(table, pk) == CHOOSE r \in table : r.pk = pk

InvoiceDefaults(stripe_invoice, c, charge, subscription) ==
    [customer |-> c.pk,
     attempted |-> stripe_invoice.attempted,
     attempt_count |-> stripe_invoice.attempt_count,
     amount_due |-> convert_amount_for_db(stripe_invoice.amount_due, stripe_invoice.currency),
     closed |-> stripe_invoice.closed,
     paid |-> stripe_invoice.paid,
     period_end |-> convert_tstamp(stripe_invoice.period_end),
     period_start |-> convert_tstamp(stripe_invoice.period_start),
     subtotal |-> convert_amount_for_db(stripe_invoice.subtotal, stripe_invoice.currency),
     tax |-> IF stripe_invoice.tax # None
             THEN Some(convert_amount_for_db(stripe_invoice.tax[1], stripe_invoice.currency))
             ELSE None,
     tax_percent |-> IF stripe_invoice.tax_percent # None
                     THEN Some(stripe_invoice.tax_percent[1] * 100) ELSE None,
     total |-> convert_amount_for_db(stripe_invoice.total, stripe_invoice.currency),
     currency |-> stripe_invoice.currency,
     metadata |-> stripe_invoice.metadata,
     date |-> convert_tstamp(stripe_invoice.date),
     charge |-> IF charge = None THEN None ELSE Some(charge[1].pk),
     subscription |-> IF subscription = None THEN None ELSE Some(subscription[1].pk),
     receipt_number |-> OrEmpty(stripe_invoice.receipt_number)]

\* sync_invoice_from_stripe_data(stripe_invoice, send_receipt) is entered:
\* its first statement is the lookup of the customer
sync_invoice_begin(f, stripe_invoice, receipt) ==
    [f EXCEPT !.payload = Some(stripe_invoice), !.receipt = receipt, !.c = None,
              !.charge = None, !.subscription = None, !.invoice = None,
              !.obj = None, !.created = FALSE, !.lines = <<>>, !.plan = None,
              !.item_subscription = None, !.got = None, !.pc = "customer_get"]

\* subscriptions.retrieve(c, sub_id) asks the processor when there is an id
AsksSubscription(d, f) ==
    LET sub_id == f.payload[1].subscription
    IN  IF sub_id # None
        THEN At(d, Asks(f, "subscription", "Subscription.retrieve", sub_id[1]))
        ELSE At(d, [f EXCEPT !.pc = "invoice_row"])

\* c = models.Customer.objects.get(stripe_id=stripe_invoice["customer"]), then
\* charges.sync_charge asks the processor for the charge when there is one
FindCustomer(d, f) ==
    LET stripe_invoice == f.payload[1]
        c == GetCustomer(d, stripe_invoice.customer)
    IN  IF c.raised # "" THEN At(d, Finish(f, c.raised, None))
        ELSE IF Truthy(stripe_invoice.charge)
        THEN At(d, Asks([f EXCEPT !.c = Some(c.obj)], "charge", "Charge.retrieve",
                        stripe_invoice.charge[1]))
        ELSE AsksSubscription(d, [f EXCEPT !.c = Some(c.obj)])

\* the processor has answered Charge.retrieve
ChargeAnswered(d, f, out) ==
    IF ~out.ok THEN At(d, Finish(f, out.error.type, None))
    ELSE At(d, [f EXCEPT !.pc = "charge_row"])

\* the Charge row written by charges.sync_charge
ChargeRow(d, f) ==
    LET g == sync_charge(d, f.payload[1].charge[1])
    IN  IF g.raised # "" THEN At(d, Finish(f, g.raised, None))
        ELSE IF f.receipt
        THEN At([d EXCEPT !.charges = g.table],
                [f EXCEPT !.charge = Some(g.obj), !.pc = "receipt"])
        ELSE AsksSubscription([d EXCEPT !.charges = g.table],
                              [f EXCEPT !.charge = Some(g.obj)])

\* if send_receipt: hooks.hookset.send_receipt(charge)
SendReceipt(d, f) ==
    AsksSubscription(send_receipt(d, f.charge[1]),
                     [f EXCEPT !.charge = Some([f.charge[1] EXCEPT !.receipt_sent = TRUE])])

\* the processor has answered subscriptions.retrieve(c, sub_id); an
\* InvalidRequestError leaves the invoice without a subscription
SubscriptionAnswered(d, f, out) ==
    IF ~out.ok /\ out.error.type # "InvalidRequestError"
    THEN At(d, Finish(f, out.error.type, None))
    ELSE IF out.ok /\ out.value # None
    THEN At(d, [f EXCEPT !.got = out.value, !.pc = "subscription_row"])
    ELSE At(d, [f EXCEPT !.pc = "invoice_row"])

\* subscription = subscriptions.sync_subscription_from_stripe_data(c, ...)
SubscriptionRow(d, f) ==
    LET sy == sync_subscription_from_stripe_data(d, f.c[1], f.got[1])
    IN  At(sy.db, [f EXCEPT !.subscription = Some(sy.obj), !.got = None,
                            !.pc = "invoice_row"])

\* the statements after the invoice row is in hand: charge.save() when there
\* is a charge, update_with_defaults when the row existed, then
\* sync_invoice_items
AfterInvoiceRow(d, f) ==
    IF f.charge # None /\ f.pc # "charge_save" THEN At(d, [f EXCEPT !.pc = "charge_save"])
    ELSE IF ~f.created THEN At(d, [f EXCEPT !.pc = "invoice_update"])
    ELSE At(d, [f EXCEPT !.lines = f.payload[1].lines.data, !.pc = "items_clear"])

\* invoice, created = models.Invoice.objects.get_or_create(stripe_id=...,
\* defaults=defaults); MultipleObjectsReturned is caught
UpsertInvoice(d, f) ==
    LET stripe_invoice == f.payload[1]
        defaults == InvoiceDefaults(stripe_invoice, f.c[1], f.charge, f.subscription)
        g == get_or_create(d.invoices, d.invoices, stripe_invoice.id, defaults, << >>)
    IN  IF g.raised # "" THEN At(d, [f EXCEPT !.pc = "invoice_first"])
        ELSE AfterInvoiceRow([d EXCEPT !.invoices = g.table],
                             [f EXCEPT !.invoice = Some(g.obj), !.created = g.created])

\* invoice = models.Invoice.objects.filter(stripe_id=...).first(); created = False.
\* When no row of the id is left, invoice is None: the charge, if there is
\* one, is still saved, and update_with_defaults then fails on None
FirstInvoice(d, f) ==
    LET m == Matching(d.invoices, f.payload[1].id)
    IN  IF m # {}
        THEN AfterInvoiceRow(d, [f EXCEPT !.invoice = Some(First(m)), !.created = FALSE])
        ELSE IF f.charge # None
        THEN At(d, [f EXCEPT !.invoice = None, !.created = FALSE, !.pc = "charge_save"])
        ELSE At(d, Finish(f, "AttributeError", None))

\* charge.invoice = invoice; charge.save(); with invoice None the next
\* statement, update_with_defaults(invoice, ...), raises AttributeError
ChargeSave(d, f) ==
    LET charge == [f.charge[1] EXCEPT
                      !.invoice = IF f.invoice = None THEN None
                                  ELSE Some(f.invoice[1].pk)]
        saved == [d EXCEPT !.charges = Save(@, charge)]
    IN  IF f.invoice = None THEN At(saved, Finish(f, "AttributeError", None))
        ELSE AfterInvoiceRow(saved, [f EXCEPT !.charge = Some(charge)])

\* invoice = utils.update_with_defaults(invoice, defaults, created) for a row
\* that existed
InvoiceUpdate(d, f) ==
    LET defaults == InvoiceDefaults(f.payload[1], f.c[1], f.charge, f.subscription)
        u == update_with_defaults(d.invoices, f.invoice[1], defaults, FALSE)
    IN  At([d EXCEPT !.invoices = u.table],
           [f EXCEPT !.invoice = Some(u.obj), !.lines = f.payload[1].lines.data,
                     !.pc = "items_clear"])

\* sync_invoice_from_stripe_data or sync_invoice_items returns to the routine
\* that called it
Returns(d, f) ==
    IF f.op = "sync_invoices_for_customer" /\ f.rest # <<>>
    THEN At(d, sync_invoice_begin([f EXCEPT !.rest = Tail(@)], Head(f.rest), FALSE))
    ELSE IF f.op = "invoices.pay" THEN At(d, Finish(f, "", Some(TRUE)))
    ELSE IF f.op = "sync_invoice_from_stripe_data"
    THEN At(d, Finish(f, "", Some(f.invoice[1].pk)))
    ELSE At(d, Finish(f, "", None))

\* whether invoice.subscription is the subscription of a subscription line
IsInvoiceSubscription(f, item) ==
    f.subscription # None /\ f.subscription[1].stripe_id = item.id

\* the plan of a line: the item's, else the plan of its subscription
LinePlan(plan, item_subscription) ==
    IF plan = None /\ item_subscription # None /\ item_subscription[1].plan # None
    THEN item_subscription[1].plan ELSE plan

\* the loop body of sync_invoice_items after the lookup of the plan: the
\* subscription of a subscription line is the invoice's, or is asked of the
\* processor
ItemSubscription(d, f) ==
    LET item == Head(f.lines)
    IN  IF item.type # "subscription"
        THEN At(d, [f EXCEPT !.item_subscription = None, !.pc = "item_row"])
        ELSE IF f.subscription = None /\ f.invoice[1].subscription # None
        THEN At(d, [f EXCEPT !.pc = "item_invoice_subscription"])
        ELSE IF IsInvoiceSubscription(f, item)
        THEN At(d, [f EXCEPT !.item_subscription = f.subscription,
                             !.plan = LinePlan(f.plan, f.subscription),
                             !.pc = "item_row"])
        ELSE At(d, Asks(f, "item_subscription", "Subscription.retrieve", item.id))

\* the loop of sync_invoice_items at its next line item
NextItem(d, f) ==
    IF f.lines = <<>> THEN Returns(d, f)
    ELSE IF Head(f.lines).plan # None
    THEN At(d, [f EXCEPT !.plan = None, !.obj = None, !.pc = "item_plan"])
    ELSE ItemSubscription(d, [f EXCEPT !.plan = None, !.obj = None])

\* invoice.items.all().delete()
ClearItems(d, f) ==
    NextItem([d EXCEPT !.items = {x \in @ : x.invoice # f.invoice[1].pk}], f)

\* plan = models.Plan.objects.get(stripe_id=item["plan"]["id"]); only
\* Plan.DoesNotExist is caught
ItemPlan(d, f) ==
    LET found == Matching(d.plans, Head(f.lines).plan[1].id)
    IN  IF Cardinality(found) > 1 THEN At(d, Finish(f, "MultipleObjectsReturned", None))
        ELSE ItemSubscription(d, [f EXCEPT !.plan = IF found = {} THEN None
                                                    ELSE Some(First(found).pk)])

\* invoice.subscription of an invoice handed over by a caller, loaded from the
\* store when it is first read
LoadInvoiceSubscription(d, f) ==
    ItemSubscription(d, [f EXCEPT !.subscription =
                            Some(ByKey(d.subscriptions, f.invoice[1].subscription[1]))])

\* the processor has answered subscriptions.retrieve(invoice.customer, item["id"])
ItemAnswered(d, f, out) ==
    IF ~out.ok THEN At(d, Finish(f, out.error.type, None))
    ELSE IF out.value = None
    THEN At(d, [f EXCEPT !.item_subscription = None, !.pc = "item_row"])
    ELSE At(d, [f EXCEPT !.got = out.value, !.pc = "item_subscription_row"])

\* item_subscription = subscriptions.sync_subscription_from_stripe_data(...)
ItemSubscriptionRow(d, f) ==
    LET sy == sync_subscription_from_stripe_data(d, f.c[1], f.got[1])
    IN  At(sy.db, [f EXCEPT !.item_subscription = Some(sy.obj), !.got = None,
                            !.plan = LinePlan(f.plan, Some(sy.obj)),
                            !.pc = "item_row"])

ItemDefaults(item, plan, item_subscription) ==
    [amount |-> convert_amount_for_db(item.amount, item.currency),
     currency |-> item.currency,
     proration |-> item.proration,
     description |-> OrEmpty(item.description),
     line_type |-> item.type,
     plan |-> plan,
     period_start |-> convert_tstamp(item.period.start),
     period_end |-> convert_tstamp(item.period.end),
     quantity |-> item.quantity,
     subscription |-> IF item_subscription = None THEN None
                      ELSE Some(item_subscription[1].pk)]

\* inv_item, inv_item_created = invoice.items.get_or_create(stripe_id=...,
\* defaults=defaults)
ItemRow(d, f) ==
    LET invoice == f.invoice[1]
        item == Head(f.lines)
        mine == {x \in d.items : x.invoice = invoice.pk}
        g == get_or_create(d.items, mine, item.id,
                           ItemDefaults(item, f.plan, f.item_subscription),
                           [invoice |-> invoice.pk])
    IN  IF g.raised # "" THEN At(d, Finish(f, g.raised, None))
        ELSE IF g.created
        THEN NextItem([d EXCEPT !.items = g.table], [f EXCEPT !.lines = Tail(@)])
        ELSE At(d, [f EXCEPT !.obj = Some(g.obj), !.pc = "item_update"])

\* utils.update_with_defaults(inv_item, defaults, inv_item_created) for a row
\* that existed
ItemUpdate(d, f) ==
    LET defaults == ItemDefaults(Head(f.lines), f.plan, f.item_subscription)
        u == update_with_defaults(d.items, f.obj[1], defaults, FALSE)
    IN  NextItem([d EXCEPT !.items = u.table], [f EXCEPT !.lines = Tail(@)])

\* invoices.sync_invoice_items(invoice, items) is entered by a caller that
\* holds the invoice and its customer: its first statement clears the items
sync_invoice_items_begin(d, invoice, items) ==
    [Flight("sync_invoice_items", Some([invoice |-> invoice.pk, items |-> items])) EXCEPT
        !.invoice = Some(invoice), !.lines = items,
        !.c = Some(ByKey(d.customers, invoice.customer)),
        !.pc = "items_clear"]

\* customer.stripe_customer has been answered: the customer's invoices()
CustomerAnswered(d, f, out) ==
    IF ~out.ok THEN At(d, Finish(f, out.error.type, None))
    ELSE At(d, Asks(f, "list", "Invoice.list", f.arg[1]))

\* sync_invoices_for_customer had it asked the processor to pay what it lists
sync_invoices_for_customer_paying(d, f, out) ==
    IF ~out.ok THEN At(d, Finish(f, out.error.type, None))
    ELSE IF out.value = <<>> THEN At(d, Finish(f, "", None))
    ELSE At(d, sync_invoice_begin(
                   [f EXCEPT !.rest = Tail(out.value),
                             !.calls = @ \o [k \in 1..Len(out.value) |->
                                                Call("Invoice.pay", out.value[k].id)]],
                   Head(out.value), FALSE))

\* invoices.sync_invoices_for_customer(customer), answered the invoices the
\* processor lists for the customer: each is synced without a receipt
sync_invoices_for_customer(d, f, out) ==
    IF ~out.ok THEN At(d, Finish(f, out.error.type, None))
    ELSE IF out.value = <<>> THEN At(d, Finish(f, "", None))
    ELSE At(d, sync_invoice_begin([f EXCEPT !.rest = Tail(out.value)],
                                  Head(out.value), FALSE))

InvoiceLabels ==
    {"customer_get", "charge_row", "receipt", "subscription_row", "invoice_row",
     "invoice_first", "charge_save", "invoice_update", "items_clear", "item_plan",
     "item_invoice_subscription", "item_subscription_row", "item_row",
     "item_update"}

\* the labels at which a sync routine waits for the processor
SyncWaits ==
    {"plans", "skus", "product", "product_skus", "charge", "subscription",
     "item_subscription", "customer", "list"}

\* the answer of the processor `s` to the call a routine waits for
Regular(s, f) ==
    CASE f.pc = "plans" -> Ok(s.plans)
      [] f.pc = "skus" -> Ok(s.skus)
      [] f.pc = "product" -> Ok(f.arg[1])
      [] f.pc = "product_skus" ->
            Ok(SelectSeq(s.skus, LAMBDA k : k.product = f.arg[1]))
      [] f.pc = "charge" ->
            IF f.payload[1].charge[1] \in s.charges THEN Ok(f.payload[1].charge[1])
            ELSE Raise(NoSuch("charge", f.payload[1].charge[1]))
      [] f.pc = "subscription" ->
            subscriptions_retrieve(s, f.c[1], f.payload[1].subscription)
      [] f.pc = "item_subscription" ->
            subscriptions_retrieve(s, f.c[1], Some(Head(f.lines).id))
      [] f.pc = "customer" -> Ok(f.arg[1])
      [] f.pc = "list" -> Ok(SelectSeq(s.invoices, LAMBDA i : i.customer = f.arg[1]))
      [] OTHER -> NotAsked

\* the answers a routine may get at its label
Answers(s, f) == IF f.pc \in SyncWaits THEN {Regular(s, f)} \cup Fails ELSE {NotAsked}

\* one statement of a sync routine, or one answer of the processor to it
Statement(d, f, out) ==
    CASE f.pc = "plans" -> sync_plans(d, f, out)
      [] f.pc = "plan_row" -> PlanRow(d, f)
      [] f.pc = "plan_update" -> PlanUpdate(d, f)
      [] f.pc = "tiers_clear" -> TiersClear(d, f)
      [] f.pc = "tier_create" -> TierCreate(d, f)
      [] f.pc = "tier_add" -> TierAdd(d, f)
      [] f.pc = "skus" -> sync_skus(d, f, out)
      [] f.pc = "product" -> ProductAnswered(d, f, out)
      [] f.pc = "product_skus" -> sync_skus_from_product(d, f, out)
      [] f.pc \in {"sku_product", "listed_product"} -> SkuProduct(d, f)
      [] f.pc = "sku_row" -> SkuRow(d, f)
      [] f.pc = "sku_save" -> SkuSave(d, f)
      [] f.pc = "listed_row" -> ListedRow(d, f)
      [] f.pc = "listed_update" -> ListedUpdate(d, f)
      [] f.pc = "customer" -> CustomerAnswered(d, f, out)
      [] f.pc = "list" -> sync_invoices_for_customer(d, f, out)
      [] f.pc = "customer_get" -> FindCustomer(d, f)
      [] f.pc = "charge" -> ChargeAnswered(d, f, out)
      [] f.pc = "charge_row" -> ChargeRow(d, f)
      [] f.pc = "receipt" -> SendReceipt(d, f)
      [] f.pc = "subscription" -> SubscriptionAnswered(d, f, out)
      [] f.pc = "subscription_row" -> SubscriptionRow(d, f)
      [] f.pc = "invoice_row" -> UpsertInvoice(d, f)
      [] f.pc = "invoice_first" -> FirstInvoice(d, f)
      [] f.pc = "charge_save" -> ChargeSave(d, f)
      [] f.pc = "invoice_update" -> InvoiceUpdate(d, f)
      [] f.pc = "items_clear" -> ClearItems(d, f)
      [] f.pc = "item_plan" -> ItemPlan(d, f)
      [] f.pc = "item_invoice_subscription" -> LoadInvoiceSubscription(d, f)
      [] f.pc = "item_subscription" -> ItemAnswered(d, f, out)
      [] f.pc = "item_subscription_row" -> ItemSubscriptionRow(d, f)
      [] f.pc = "item_row" -> ItemRow(d, f)
      [] f.pc = "item_update" -> ItemUpdate(d, f)

\* a sync routine run to its end with nothing else running meanwhile and a
\* processor `s` that answers every call
RECURSIVE Complete(_, _, _)
Complete(d, s, f) ==
    IF f.pc = "done" THEN At(d, f)
    ELSE Then(Statement(d, f, Regular(s, f)), LAMBDA r : Complete(r.db, s, r.f))

\* what a completed sync routine leaves
Left(r) == [db |-> r.db, raised |-> r.f.raised, calls |-> r.f.calls, obj |-> r.f.result]

\* plans.sync_plan(plan)
sync_plan(d, s, plan) ==
    Left(Complete(d, s, sync_plan_begin(Flight("sync_plan", Some(plan.id)), plan)))

\* skus.sync_sku_from_stripe_data(stripe_sku)
sync_sku_from_stripe_data(d, s, stripe_sku) ==
    Left(Complete(d, s, sync_sku_begin(Flight("sync_sku_from_stripe_data",
                                              Some(stripe_sku.id)), stripe_sku)))

\* skus.sync_skus() from its call to its return
sync_skus_run(d, s) ==
    Left(Complete(d, s, Asks(Flight("sync_skus", None), "skus", "SKU.list", "")))

\* invoices.sync_invoice_items(invoice, items)
sync_invoice_items(d, s, invoice, items) ==
    Left(Complete(d, s, sync_invoice_items_begin(d, invoice, items)))

\* invoices.sync_invoice_from_stripe_data(stripe_invoice, send_receipt)
sync_invoice_from_stripe_data(d, s, stripe_invoice, receipt) ==
    Left(Complete(d, s, sync_invoice_begin(
                            Flight("sync_invoice_from_stripe_data",
                                   Some(stripe_invoice.id)),
                            stripe_invoice, receipt)))

(* ----------------------------------------------------------- action layer *)

\* what an operation leaves behind: the local store, the processor, the
\* exception that left it ("" when it returned), its return value and the
\* processor calls it made
Ret(d, s, raised, result, calls) ==
    [db |-> d, stripe |-> s, raised |-> raised, result |-> result, calls |-> calls]

InSeq(seq, id) == \E k \in 1..Len(seq) : seq[k].id = id

Lookup(seq, id) == seq[CHOOSE k \in 1..Len(seq) : seq[k].id = id]

Replace(seq, obj) == [k \in 1..Len(seq) |-> IF seq[k].id = obj.id THEN obj ELSE seq[k]]

\* how the processor may answer stripe.<Kind>.retrieve(id)
RetrieveOutcomes(seq, kind, id) ==
    (IF InSeq(seq, id) THEN {Ok(Lookup(seq, id))} ELSE {Raise(NoSuch(kind, id))})
    \cup {Raise(e) : e \in OtherErrors}

\* how the processor may answer stripe.SKU.create(**params)
SkuCreateOutcomes(s, params) ==
    (IF \E i \in SkuIds : ~InSeq(s.skus, i) THEN {Ok(StripeSkuCreate(s, params))} ELSE {})
    \cup {Raise(e) : e \in OtherErrors}

\* the processor gives no invoice an id it has used before
FreshInvoiceId(s, id) == ~InSeq(s.invoices, id) /\ id \notin s.deleted

\* how the processor may answer stripe.Invoice.create(customer=...)
InvoiceCreateOutcomes(s, customer_id) ==
    (IF \E i \in InvoiceIds : FreshInvoiceId(s, i)
     THEN {Ok(NewInvoice(CHOOSE i \in InvoiceIds : FreshInvoiceId(s, i),
                         customer_id, draft.lines, None)) :
             draft \in {x \in Drafts : x.subscription = None}}
     ELSE {})
    \cup {Raise(NothingToInvoice)}
    \cup {Raise(e) : e \in OtherErrors}

\* how the processor may answer invoice.pay()
PayOutcomes(stripe_invoice) ==
    (IF ~stripe_invoice.paid /\ ~stripe_invoice.closed
     THEN {Ok(PaidInvoice(stripe_invoice)), Raise(CardError)}
     ELSE {Raise(InvalidRequestError(<<"Invoice", "is", "already", "paid">>))})
    \cup {Raise(e) : e \in OtherErrors}

\* how the processor may answer invoice.pay() for the invoice `id`
PayAnswers(s, id) ==
    IF InSeq(s.invoices, id) THEN PayOutcomes(Lookup(s.invoices, id))
    ELSE {Raise(NoSuch("invoice", id))} \cup {Raise(e) : e \in OtherErrors}

\* how the processor may answer invoice.delete(): it deletes drafts only
DeleteOutcomes(s, id) ==
    (IF ~InSeq(s.invoices, id) THEN {Raise(NoSuch("invoice", id))}
     ELSE IF ~Lookup(s.invoices, id).paid /\ ~Lookup(s.invoices, id).closed
     THEN {Ok(id)}
     ELSE {Raise(InvalidRequestError(<<"Invoice", "is", "not", "a", "draft">>))})
    \cup {Raise(e) : e \in OtherErrors}

\* the processor once it has charged an invoice
Charged(s, paid) ==
    [s EXCEPT !.invoices = Replace(@, paid), !.charges = @ \cup {paid.charge[1]}]

\* the processor once it has deleted an invoice
Deleted(s, id) ==
    [s EXCEPT !.invoices = SelectSeq(@, LAMBDA i : i.id # id),
              !.deleted = @ \cup {id}]

\* the invoices of the processor that are still open
OpenInvoices(s) ==
    {k \in 1..Len(s.invoices) : ~s.invoices[k].paid /\ ~s.invoices[k].closed}

\* skus.create(product, price, inventory, ...) calls stripe.SKU.create with
\* the parameters it has built
skus_create_begin(product, price, inventory, currency, attributes, image, metadata, package_dimensions, active) ==
    [Asks(Flight("skus.create", Some([product |-> product.stripe_id, price |-> price,
                                      active |-> active])),
          "sku_create", "SKU.create", product.stripe_id)
     EXCEPT !.got = Some(SkuParams(product, price, inventory, currency, attributes,
                                   image, metadata, package_dimensions, active))]

\* skus.create, answered `out` by the processor `s`: it hands the SKU the
\* processor created to sync_sku_from_stripe_data
skus_create(d, s, f, out) ==
    LET g == [f EXCEPT !.answers = Append(@, out)]
    IN  IF ~out.ok THEN [db |-> d, stripe |-> s, f |-> Finish(g, out.error.type, None)]
        ELSE [db |-> d, stripe |-> [s EXCEPT !.skus = Append(@, out.value)],
              f |-> sync_sku_begin(g, out.value)]

\* skus.retrieve had it taken every InvalidRequestError for "not found"
skus_retrieve_swallowing(d, s, sku_id, out) ==
    IF ~Truthy(sku_id) THEN Ret(d, s, "", None, <<>>)
    ELSE LET calls == <<Call("SKU.retrieve", sku_id[1])>>
         IN  IF out.ok THEN Ret(d, s, "", Some(out.value), calls)
             ELSE IF out.error.type = "InvalidRequestError"
             THEN Ret(d, s, "", None, calls)
             ELSE Ret(d, s, out.error.type, None, calls)

\* skus.retrieve(sku_id)
skus_retrieve(d, s, sku_id, out) ==
    IF ~Truthy(sku_id) THEN Ret(d, s, "", None, <<>>)
    ELSE LET calls == <<Call("SKU.retrieve", sku_id[1])>>
         IN  IF out.ok THEN Ret(d, s, "", Some(out.value), calls)
             ELSE IF out.error.type = "InvalidRequestError"
                     /\ Find(out.error.msg, <<"No", "such", "sku">>) # -1
             THEN Ret(d, s, "", None, calls)
             ELSE Ret(d, s, out.error.type, None, calls)

\* invoices.create(customer)
invoices_create(d, s, customer, out) ==
    LET calls == <<Call("Invoice.create", customer.stripe_id)>>
    IN  IF ~out.ok THEN Ret(d, s, out.error.type, None, calls)
        ELSE Ret(d, [s EXCEPT !.invoices = Append(@, out.value)], "",
                 Some(out.value), calls)

\* invoices.retrieve(invoice_id)
invoices_retrieve(d, s, invoice_id, out) ==
    IF ~Truthy(invoice_id) THEN Ret(d, s, "", None, <<>>)
    ELSE LET calls == <<Call("Invoice.retrieve", invoice_id[1])>>
         IN  IF out.ok THEN Ret(d, s, "", Some(out.value), calls)
             ELSE IF out.error.type = "InvalidRequestError"
                     /\ Find(out.error.msg, <<"No", "such", "invoice">>) # -1
             THEN Ret(d, s, "", None, calls)
             ELSE Ret(d, s, out.error.type, None, calls)

\* invoices.create_and_pay(customer) calls Invoice.create
create_and_pay_begin(customer) ==
    Asks(Flight("invoices.create_and_pay", Some(customer.stripe_id)), "create",
         "Invoice.create", customer.stripe_id)

\* invoices.create_and_pay(customer), answered `out` by the processor `s`: to
\* Invoice.create first and then, for an invoice with something due, to
\* invoice.pay()
create_and_pay(d, s, f, out) ==
    LET g == [f EXCEPT !.answers = Append(@, out)]
        \* except stripe.InvalidRequestError as e
        Handler(e) ==
            IF e.type = "InvalidRequestError"
               /\ EndsWith(e.msg, <<"Nothing", "to", "invoice", "for", "customer">>)
            THEN Finish(g, "", Some(FALSE))
            ELSE Finish(g, e.type, None)
    IN  IF ~out.ok THEN [db |-> d, stripe |-> s, f |-> Handler(out.error)]
        ELSE IF f.pc = "create"
        THEN [db |-> d, stripe |-> [s EXCEPT !.invoices = Append(@, out.value)],
              f |-> IF out.value.amount_due > 0
                    THEN Asks([g EXCEPT !.payload = Some(out.value)], "pay",
                              "Invoice.pay", out.value.id)
                    ELSE Finish(g, "", Some(TRUE))]
        ELSE [db |-> d, stripe |-> Charged(s, out.value),
              f |-> Finish(g, "", Some(TRUE))]

\* invoices.delete_drafted_invoice(invoice_id) calls Invoice.retrieve
delete_drafted_invoice_begin(invoice_id) ==
    Asks(Flight("invoices.delete_drafted_invoice", Some(invoice_id)), "retrieve",
         "Invoice.retrieve", invoice_id)

\* invoices.delete_drafted_invoice(invoice_id), answered `out` by the
\* processor `s`: to Invoice.retrieve first and then to invoice.delete()
delete_drafted_invoice(d, s, f, out) ==
    LET g == [f EXCEPT !.answers = Append(@, out)]
        \* except stripe.InvalidRequestError as e
        Handler(e) ==
            IF e.type = "InvalidRequestError"
               /\ Find(e.msg, <<"No", "such", "invoice">>) # -1
            THEN Finish(g, "", None)
            ELSE Finish(g, e.type, None)
    IN  IF ~out.ok THEN [db |-> d, stripe |-> s, f |-> Handler(out.error)]
        ELSE IF f.pc = "retrieve"
        THEN [db |-> d, stripe |-> s,
              f |-> Asks(g, "delete", "Invoice.delete", f.arg[1])]
        ELSE [db |-> d, stripe |-> Deleted(s, f.arg[1]), f |-> Finish(g, "", None)]

\* invoices.pay(invoice, send_receipt) returns False for an invoice that is
\* paid or closed and else calls Invoice.retrieve (invoice.stripe_invoice)
pay_begin(invoice, receipt) ==
    LET f == [Flight("invoices.pay", Some(invoice.stripe_id)) EXCEPT
                 !.receipt = receipt, !.invoice = Some(invoice)]
    IN  IF ~invoice.paid /\ ~invoice.closed
        THEN Asks(f, "retrieve", "Invoice.retrieve", invoice.stripe_id)
        ELSE Finish(f, "", Some(FALSE))

\* invoices.pay(invoice, send_receipt), answered `out` by the processor `s`:
\* to Invoice.retrieve first and then to pay(), whose answer it hands to
\* sync_invoice_from_stripe_data; an error of either call leaves the routine
pay(d, s, f, out) ==
    LET g == [f EXCEPT !.answers = Append(@, out)]
    IN  IF ~out.ok THEN [db |-> d, stripe |-> s, f |-> Finish(g, out.error.type, None)]
        ELSE IF f.pc = "retrieve"
        THEN [db |-> d, stripe |-> s, f |-> Asks(g, "pay", "Invoice.pay", f.arg[1])]
        ELSE [db |-> d, stripe |-> Charged(s, out.value),
              f |-> sync_invoice_begin(g, out.value, g.receipt)]

(* ------------------------------------------------------------ state machine *)

\* the processor's subscription the payloads refer to
Subscription1 == [id |-> "sub_1", customer |-> "cus_1", plan |-> "gold",
                  status |-> "active"]

EmptyDb ==
    [plans |-> {}, tiers |-> {}, skus |-> {}, invoices |-> {}, items |-> {},
     charges |-> {}, subscriptions |-> {},
     customers |-> {[pk |-> 1, stripe_id |-> "cus_1"]},
     products |-> {[pk |-> 1, stripe_id |-> "prod_1"]}]

EmptyProcessor(subs) ==
    [plans |-> <<>>, skus |-> <<>>, invoices |-> <<>>, charges |-> {},
     subscriptions |-> subs, deleted |-> {}]

\* the record of a step in which no routine has returned
Start == [op |-> "start", arg |-> None, answers |-> <<>>, raised |-> "",
          result |-> None, calls |-> <<>>]

NoReport == [op |-> "none", starts |-> <<>>, asked |-> None, range |-> None, count |-> 0]

\* the slots of the requests in flight
Requests == 1..MaxRequests

EventIds == {"evt_1", "evt_2"}

\* json.loads(smart_str(request.body))
EventPayloads ==
    {[id |-> i, type |-> k, livemode |-> FALSE] :
        i \in EventIds, k \in {"invoice.created"}}

Idle == [pc |-> "idle", data |-> None, event |-> None]

\* no webhook request has arrived; Event.stripe_id is unique in the schema
NoRequests ==
    [unique |-> TRUE, events |-> {}, exceptions |-> {}, runs |-> <<>>,
     req |-> [r \in Requests |-> Idle]]

Users == {"u1"}

Tokens == {"tok_1", "tok_2"}

\* a request slot in which no change_card request has arrived
NoCardRequest ==
    [pc |-> "idle", user |-> "", stripe_token |-> "", send_invoice |-> FALSE,
     steps |-> <<>>, data |-> <<>>, raised |-> ""]

\* no request of subscribe, change_plan or cancel is being served
NoView ==
    [view |-> "", pc |-> "idle", user |-> "", valid |-> FALSE, stripe_token |-> "",
     plan |-> "", data |-> <<>>, raised |-> ""]

\* no card has been changed: every user has a customer without a card on
\* file and without a plan
NoCards ==
    [customers |-> Users, fingerprint |-> [u \in Users |-> ""],
     plan |-> [u \in Users |-> ""],
     req |-> [r \in Requests |-> NoCardRequest],
     view |-> NoView]

\* no request is in flight
NoFlights == [r \in Requests |-> NoFlight]

\* an empty local store beside a processor that holds nothing but, possibly,
\* the customer's subscription
Init ==
    /\ db = EmptyDb
    /\ stripe \in {EmptyProcessor({}), EmptyProcessor({Subscription1})}
    /\ last = Start
    /\ synced = [i \in PlanIds |-> None]
    /\ report = NoReport
    /\ web = NoRequests
    /\ card = NoCards
    /\ flight = NoFlights
    /\ arrived = 0

\* the step of an operation that asks the processor once: what it leaves, and
\* the record of the call with the processor's answer to it
Does(op, arg, answers, r) ==
    /\ db' = r.db
    /\ stripe' = r.stripe
    /\ last' = [op |-> op, arg |-> arg, answers |-> answers, raised |-> r.raised,
                result |-> r.result, calls |-> r.calls]
    /\ UNCHANGED <<synced, report, web, card, flight, arrived>>

\* the processor after it has served the calls of a routine: a retrieve or a
\* list leaves it as it is, a pay charges the invoice, a delete removes it
RECURSIVE Served(_, _)
Served(s, calls) ==
    IF calls = <<>> THEN s
    ELSE LET c == Head(calls)
             after ==
                 IF c.api = "Invoice.pay" /\ InSeq(s.invoices, c.id)
                 THEN Charged(s, PaidInvoice(Lookup(s.invoices, c.id)))
                 ELSE IF c.api = "Invoice.delete" /\ InSeq(s.invoices, c.id)
                 THEN Deleted(s, c.id)
                 ELSE s
         IN  Served(after, Tail(calls))

(* the processor's objects change outside this program *)

ProcessorPlanChanged ==
    \E p \in PlanVersions :
        /\ stripe' = [stripe EXCEPT !.plans =
                         IF InSeq(@, p.id) THEN Replace(@, p) ELSE Append(@, p)]
        /\ stripe' # stripe
        /\ last' = Start
        /\ UNCHANGED <<db, synced, report, web, card, flight, arrived>>

\* a SKU is taken off sale or put on sale again
ProcessorSkuChanged ==
    \E k \in 1..Len(stripe.skus) :
        /\ stripe' = [stripe EXCEPT !.skus[k].active = ~@]
        /\ last' = Start
        /\ UNCHANGED <<db, synced, report, web, card, flight, arrived>>

ProcessorInvoiceChanged ==
    \E k \in 1..Len(stripe.invoices), draft \in Drafts :
        /\ ~stripe.invoices[k].paid /\ ~stripe.invoices[k].closed
        /\ stripe' = [stripe EXCEPT !.invoices[k] =
                         NewInvoice(@.id, @.customer, draft.lines, draft.subscription)]
        /\ last' = Start
        /\ UNCHANGED <<db, synced, report, web, card, flight, arrived>>

ProcessorInvoiceClosed ==
    \E k \in 1..Len(stripe.invoices) :
        /\ ~stripe.invoices[k].paid /\ ~stripe.invoices[k].closed
        /\ stripe' = [stripe EXCEPT !.invoices[k].closed = TRUE]
        /\ last' = Start
        /\ UNCHANGED <<db, synced, report, web, card, flight, arrived>>

(* the sync layer *)

\* what a routine that is done leaves in `last`
Outcome(f) ==
    [op |-> f.op, arg |-> f.arg, answers |-> f.answers, raised |-> f.raised,
     result |-> f.result, calls |-> f.calls]

\* a step in which the frame f becomes g has returned from sync_plan
PlanSynced(f, g) ==
    /\ f.pc \in PlanLabels
    /\ g.raised = ""
    /\ g.pc = "done" \/ Len(g.rest) < Len(f.rest)

\* the step of the request in slot r (0: of a request that holds no slot):
\* x is what the step leaves, `last` the routine that has returned in it, and
\* `synced` the payload of a sync_plan that has returned in it
Moves(r, x) ==
    /\ db' = x.db
    /\ stripe' = x.stripe
    /\ flight' = [q \in Requests |->
                     IF q = r THEN IF x.f.pc = "done" THEN NoFlight ELSE x.f
                     ELSE flight[q]]
    /\ last' = IF x.f.pc = "done" THEN Outcome(x.f) ELSE Start
    /\ synced' = IF r # 0 /\ PlanSynced(flight[r], x.f)
                 THEN [synced EXCEPT ![flight[r].payload[1].id] = flight[r].payload]
                 ELSE synced
    /\ arrived' = IF r # 0 /\ flight[r].pc = "idle" THEN arrived + 1 ELSE arrived
    /\ UNCHANGED <<report, web, card>>

\* a request arrives: it returns at once, or takes the first free slot
Arrives(f) ==
    LET x == [db |-> db, stripe |-> stripe, f |-> f]
    IN  IF f.pc = "done" THEN Moves(0, x)
        ELSE \E r \in Requests :
                /\ arrived < MaxCalls
                /\ flight[r].pc = "idle"
                /\ \A q \in 1..(r - 1) : flight[q].pc # "idle"
                /\ Moves(r, x)

\* the calls a step has added to those of the frame
Added(f, g) == SubSeq(g.calls, Len(f.calls) + 1, Len(g.calls))

\* sync_plan is handed a plan of the processor
SyncPlan ==
    \E k \in 1..Len(stripe.plans) :
        Arrives(sync_plan_begin(Flight("sync_plan", Some(stripe.plans[k].id)),
                                stripe.plans[k]))

\* sync_plans asks the processor for its plans
SyncPlans == Arrives(Asks(Flight("sync_plans", None), "plans", "Plan.list", ""))

\* sync_sku_from_stripe_data is handed a SKU of the processor
SyncSku ==
    \E k \in 1..Len(stripe.skus) :
        Arrives(sync_sku_begin(Flight("sync_sku_from_stripe_data",
                                      Some(stripe.skus[k].id)), stripe.skus[k]))

\* sync_skus asks the processor for its SKUs
SyncSkus == Arrives(Asks(Flight("sync_skus", None), "skus", "SKU.list", ""))

\* sync_skus_from_product calls Product.retrieve (product.stripe_product)
SyncSkusFromProduct ==
    \E product \in db.products :
        Arrives(Asks(Flight("sync_skus_from_product", Some(product.stripe_id)),
                     "product", "Product.retrieve", product.stripe_id))

\* the invoices a caller may hold: those of the processor as they are, and
\* as they were when the processor drafted them with a single prorated item
Delivered(s) ==
    {s.invoices[k] : k \in 1..Len(s.invoices)}
    \cup {NewInvoice(s.invoices[k].id, s.invoices[k].customer, <<ProratedItem>>, None) :
             k \in 1..Len(s.invoices)}

\* sync_invoice_from_stripe_data is handed an invoice as its caller got it
\* from the processor
SyncInvoice ==
    \E stripe_invoice \in Delivered(stripe) :
        Arrives(sync_invoice_begin(Flight("sync_invoice_from_stripe_data",
                                          Some(stripe_invoice.id)),
                                   stripe_invoice, SEND_EMAIL_RECEIPTS))

\* sync_invoice_items is handed a local invoice and line items of a payload
SyncInvoiceItems ==
    \E invoice \in db.invoices, x \in Drafts :
        Arrives(sync_invoice_items_begin(db, invoice, x.lines))

\* sync_invoices_for_customer calls Customer.retrieve (customer.stripe_customer)
SyncInvoicesForCustomer ==
    \E customer \in db.customers :
        Arrives(Asks(Flight("sync_invoices_for_customer", Some(customer.stripe_id)),
                     "customer", "Customer.retrieve", customer.stripe_id))

\* a routine in flight runs its next statement, or gets the answer it waits
\* for; the processor serves the calls it makes
Steps ==
    \E r \in Requests :
        /\ flight[r].pc \in PlanLabels \cup SkuLabels \cup InvoiceLabels \cup SyncWaits
        /\ \E out \in Answers(stripe, flight[r]) :
              LET x == Statement(db, flight[r], out)
              IN  Moves(r, [db |-> x.db,
                            stripe |-> Served(stripe, Added(flight[r], x.f)),
                            f |-> x.f])

(* the action layer *)

SkusCreate ==
    \E product \in db.products, price \in Amounts, active \in BOOLEAN :
        Arrives(skus_create_begin(product, price, "infinite", "usd", None, None,
                                  None, None, active))

SkusCreateAnswered ==
    \E r \in Requests :
        /\ flight[r].pc = "sku_create"
        /\ \E out \in SkuCreateOutcomes(stripe, flight[r].got[1]) :
              Moves(r, skus_create(db, stripe, flight[r], out))

SkusRetrieve ==
    \E sku_id \in {None, Some("")} \cup {Some(i) : i \in SkuIds} :
        \E out \in RetrieveOutcomes(stripe.skus, "sku", OrEmpty(sku_id)) :
            Does("skus.retrieve", sku_id, <<out>>, skus_retrieve(db, stripe, sku_id, out))

InvoicesCreate ==
    \E customer \in db.customers :
        \E out \in InvoiceCreateOutcomes(stripe, customer.stripe_id) :
            Does("invoices.create", Some(customer.stripe_id), <<out>>,
                 invoices_create(db, stripe, customer, out))

InvoicesRetrieve ==
    \E invoice_id \in {None, Some("")} \cup {Some(i) : i \in InvoiceIds} :
        \E out \in RetrieveOutcomes(stripe.invoices, "invoice", OrEmpty(invoice_id)) :
            Does("invoices.retrieve", invoice_id, <<out>>,
                 invoices_retrieve(db, stripe, invoice_id, out))

CreateAndPay ==
    \E customer \in db.customers : Arrives(create_and_pay_begin(customer))

CreateAndPayAnswered ==
    \E r \in Requests :
        /\ flight[r].op = "invoices.create_and_pay"
        /\ flight[r].pc \in {"create", "pay"}
        /\ \E out \in IF flight[r].pc = "create"
                      THEN InvoiceCreateOutcomes(stripe, flight[r].arg[1])
                      ELSE PayAnswers(stripe, flight[r].payload[1].id) :
              Moves(r, create_and_pay(db, stripe, flight[r], out))

Pay ==
    \E invoice \in db.invoices, receipt \in BOOLEAN : Arrives(pay_begin(invoice, receipt))

PayAnswered ==
    \E r \in Requests :
        /\ flight[r].op = "invoices.pay"
        /\ flight[r].pc \in {"retrieve", "pay"}
        /\ \E out \in IF flight[r].pc = "retrieve"
                      THEN RetrieveOutcomes(stripe.invoices, "invoice", flight[r].arg[1])
                      ELSE PayAnswers(stripe, flight[r].arg[1]) :
              Moves(r, pay(db, stripe, flight[r], out))

DeleteDraftedInvoice ==
    \E invoice_id \in InvoiceIds : Arrives(delete_drafted_invoice_begin(invoice_id))

DeleteDraftedInvoiceAnswered ==
    \E r \in Requests :
        /\ flight[r].op = "invoices.delete_drafted_invoice"
        /\ flight[r].pc \in {"retrieve", "delete"}
        /\ \E out \in IF flight[r].pc = "retrieve"
                      THEN RetrieveOutcomes(stripe.invoices, "invoice", flight[r].arg[1])
                      ELSE DeleteOutcomes(stripe, flight[r].arg[1]) :
              Moves(r, delete_drafted_invoice(db, stripe, flight[r], out))

\* an empty local store beside a processor that holds nothing
InitBare == Init /\ stripe = EmptyProcessor({})

\* the plans subsystem
NextPlans == ProcessorPlanChanged \/ SyncPlan \/ SyncPlans \/ Steps

SpecPlans == InitBare /\ [][NextPlans]_vars

\* the SKU subsystem: skus.create beside the sync of single SKUs
NextSkus ==
    \/ ProcessorSkuChanged
    \/ SyncSku
    \/ Steps
    \/ SkusCreate
    \/ SkusCreateAnswered

SpecSkus == InitBare /\ [][NextSkus]_vars

\* the invoice subsystem: the action layer beside the sync of single invoices
NextInvoices ==
    \/ SyncInvoice
    \/ Steps
    \/ InvoicesCreate
    \/ CreateAndPay
    \/ CreateAndPayAnswered
    \/ Pay
    \/ PayAnswered

\* an empty local store beside a processor that holds the customer's
\* subscription
InitInvoices == Init /\ stripe = EmptyProcessor({Subscription1})

SpecInvoices == InitInvoices /\ [][NextInvoices]_vars

(* -------------------------------------------------------------- reporting *)

FirstYear == 2013

Years == FirstYear..(FirstYear + MaxYearSpan)

\* timezone.datetime(year, month, day, hour, tzinfo=timezone.utc)
datetime(year, month, day, hour) ==
    [year |-> year, month |-> month, day |-> day, hour |-> hour, tzinfo |-> "UTC"]

\* a < b on instants of one time zone
Before(a, b) ==
    \/ a.year < b.year
    \/ a.year = b.year /\ a.month < b.month
    \/ a.year = b.year /\ a.month = b.month /\ a.day < b.day
    \/ a.year = b.year /\ a.month = b.month /\ a.day = b.day /\ a.hour < b.hour

\* managers.get_range(year, month)
\* get_range had December ended at January of the same year
get_range_same_year(year, month) ==
    LET start_date == datetime(year, month, 1, 0)
        end_date == IF month = 12 THEN datetime(year, 1, 1, 0)
                    ELSE datetime(year, month + 1, 1, 0)
    IN  <<start_date, end_date>>

get_range(year, month) ==
    LET start_date == datetime(year, month, 1, 0)
        end_date == IF month = 12 THEN datetime(year + 1, 1, 1, 0)
                    ELSE datetime(year, month + 1, 1, 0)
    IN  <<start_date, end_date>>

\* Customer.objects.started_during(year, month).count(); starts[i] is the
\* start of the current subscription of the i-th customer
started_during(starts, year, month) ==
    LET range == get_range(year, month)
    IN  Cardinality({i \in DOMAIN starts :
                        ~Before(starts[i], range[1]) /\ Before(starts[i], range[2])})

\* the first and the last hour of January and of December
SampleInstants ==
    {datetime(y, m, e[1], e[2]) : y \in Years, m \in {1, 12},
                                  e \in {<<1, 0>>, <<31, 23>>}}

\* CustomerManagerTest.setUp: twelve customers whose subscription started on
\* 1 January 2013 and one whose subscription started on 1 December 2013
SetUpStarts ==
    [i \in 1..13 |-> IF i <= 12 THEN datetime(2013, 1, 1, 0)
                     ELSE datetime(2013, 12, 1, 0)]

\* the subscription starts of the customers of the local store, customer by
\* customer: the store of setUp, and every store of up to MaxCustomers
\* customers
StartLists == {SetUpStarts} \cup SeqsUpTo(SampleInstants, MaxCustomers)

InitReports ==
    /\ db = EmptyDb
    /\ stripe = EmptyProcessor({})
    /\ last = Start
    /\ synced = [i \in PlanIds |-> None]
    /\ report \in {[NoReport EXCEPT !.starts = st] : st \in StartLists}
    /\ web = NoRequests
    /\ card = NoCards
    /\ flight = NoFlights
    /\ arrived = 0

GetRange ==
    \E year \in Years, month \in 1..12 :
        /\ report' = [report EXCEPT !.op = "get_range",
                                    !.asked = Some([year |-> year, month |-> month]),
                                    !.range = Some(get_range(year, month)),
                                    !.count = 0]
        /\ UNCHANGED <<db, stripe, last, synced, web, card, flight, arrived>>

StartedDuring ==
    \E year \in Years, month \in 1..12 :
        /\ report' = [report EXCEPT !.op = "started_during",
                                    !.asked = Some([year |-> year, month |-> month]),
                                    !.range = Some(get_range(year, month)),
                                    !.count = started_during(report.starts, year, month)]
        /\ UNCHANGED <<db, stripe, last, synced, web, card, flight, arrived>>

NextReports == GetRange \/ StartedDuring

SpecReports == InitReports /\ [][NextReports]_vars


(* ---------------------------------------------------------------- webhook *)

\* Event.objects.filter(stripe_id=...).exists()
EventExists(w, id) == \E e \in w.events : e.stripe_id = id

\* Event.objects.create(...): the row inserted, or the IntegrityError of a
\* unique stripe_id that is already there
EventCreate(w, data) ==
    IF w.unique /\ EventExists(w, data.id)
    THEN [raised |-> "IntegrityError", events |-> w.events, pk |-> 0]
    ELSE LET pk == NextPk(w.events)
         IN  [raised |-> "",
              events |-> w.events \cup
                  {[pk |-> pk, stripe_id |-> data.id, kind |-> data.type,
                    livemode |-> data.livemode, valid |-> None, processed |-> FALSE]},
              pk |-> pk]

\* event.validate()
validate(w, pk) ==
    [w EXCEPT !.events = {IF e.pk = pk THEN [e EXCEPT !.valid = Some(TRUE)] ELSE e :
                             e \in @}]

\* event.process(): the handlers of the event run unless it was processed
process(w, pk) ==
    LET e == ByKey(w.events, pk)
    IN  IF e.valid = Some(TRUE) /\ ~e.processed
        THEN [w EXCEPT !.events = (@ \ {e}) \cup {[e EXCEPT !.processed = TRUE]},
                       !.runs = Append(@, e.stripe_id)]
        ELSE w

\* a step of the webhook view by request r
WebStep(r, w, pc) ==
    /\ web' = [w EXCEPT !.req[r].pc = pc]
    /\ UNCHANGED <<db, stripe, last, synced, report, card, flight, arrived>>

\* the request arrives and its body is parsed
WebhookReceive ==
    \E r \in Requests, data \in EventPayloads :
        /\ web.req[r].pc = "idle"
        /\ WebStep(r, [web EXCEPT !.req[r].data = Some(data)], "check")

\* if Event.objects.filter(stripe_id=data["id"]).exists()
WebhookCheck ==
    \E r \in Requests :
        /\ web.req[r].pc = "check"
        /\ WebStep(r, web, IF EventExists(web, web.req[r].data[1].id)
                           THEN "duplicate" ELSE "create")

\* EventProcessingException.objects.create(message="Duplicate event record")
WebhookDuplicate ==
    \E r \in Requests :
        /\ web.req[r].pc = "duplicate"
        /\ WebStep(r, [web EXCEPT !.exceptions = @ \cup
                          {[pk |-> NextPk(@), data |-> web.req[r].data[1].id,
                            message |-> "Duplicate event record"]}],
                   "respond")

\* event = Event.objects.create(...)
WebhookCreate ==
    \E r \in Requests :
        /\ web.req[r].pc = "create"
        /\ LET c == EventCreate(web, web.req[r].data[1])
           IN  IF c.raised # "" THEN WebStep(r, web, "failed")
               ELSE WebStep(r, [web EXCEPT !.events = c.events,
                                           !.req[r].event = Some(c.pk)],
                            "validate")

WebhookValidate ==
    \E r \in Requests :
        /\ web.req[r].pc = "validate"
        /\ WebStep(r, validate(web, web.req[r].event[1]), "process")

WebhookProcess ==
    \E r \in Requests :
        /\ web.req[r].pc = "process"
        /\ WebStep(r, process(web, web.req[r].event[1]), "respond")

\* return HttpResponse()
WebhookRespond ==
    \E r \in Requests :
        /\ web.req[r].pc = "respond"
        /\ WebStep(r, web, "done")

\* the schema of Event either has stripe_id unique or has not
InitWebhooks ==
    /\ db = EmptyDb
    /\ stripe = EmptyProcessor({})
    /\ last = Start
    /\ synced = [i \in PlanIds |-> None]
    /\ report = NoReport
    /\ web \in {[NoRequests EXCEPT !.unique = u] : u \in BOOLEAN}
    /\ card = NoCards
    /\ flight = NoFlights
    /\ arrived = 0

NextWebhooks ==
    \/ WebhookReceive
    \/ WebhookCheck
    \/ WebhookDuplicate
    \/ WebhookCreate
    \/ WebhookValidate
    \/ WebhookProcess
    \/ WebhookRespond

SpecWebhooks == InitWebhooks /\ [][NextWebhooks]_vars


(* ------------------------------------------------------------ change_card *)

\* the card fingerprint the processor reports for a token
FingerprintOf(token) == IF token = "tok_1" THEN "fp_1" ELSE "fp_2"

\* how customer.update_card(token) may end
UpdateCardOutcomes(token) ==
    {Ok(FingerprintOf(token)), Raise(CardError)} \cup {Raise(e) : e \in OtherErrors}

\* how customer.send_invoice() and customer.retry_unpaid_invoices() may end
ChargeOutcomes == {Ok(None), Raise(CardError)} \cup {Raise(e) : e \in OtherErrors}

\* how Customer.create(request.user) may end
CustomerCreateOutcomes == {Ok(None)} \cup {Raise(e) : e \in OtherErrors}

\* how customer.subscribe(plan) may end
SubscribeOutcomes == {Ok(None), Raise(CardError)} \cup {Raise(e) : e \in OtherErrors}

\* how customer.cancel() may end
CancelOutcomes == {Ok(None)} \cup {Raise(e) : e \in OtherErrors}

Step(name, out) == [name |-> name, out |-> out]

\* change_card as the request arrives: customer = request.user.customer and
\* send_invoice = customer.card_fingerprint == ""
change_card_begin(c, user, stripe_token) ==
    IF user \notin c.customers
    THEN [NoCardRequest EXCEPT !.pc = "done", !.user = user,
                               !.stripe_token = stripe_token,
                               !.raised = "DoesNotExist"]
    ELSE [NoCardRequest EXCEPT !.pc = "update_card", !.user = user,
                               !.stripe_token = stripe_token,
                               !.send_invoice = (c.fingerprint[user] = "")]

\* change_card had it retried the unpaid invoices whatever update_card did
change_card_retrying(r, out) ==
    LET steps == Append(r.steps, Step(r.pc, out))
    IN  IF r.pc = "update_card"
        THEN [r EXCEPT !.pc = "retry_unpaid_invoices", !.steps = steps]
        ELSE IF ~out.ok
        THEN [r EXCEPT !.pc = "done", !.steps = steps,
                       !.data = [error |-> out.error.msg]]
        ELSE IF r.pc = "send_invoice"
        THEN [r EXCEPT !.pc = "retry_unpaid_invoices", !.steps = steps]
        ELSE [r EXCEPT !.pc = "done", !.steps = steps]

\* change_card once the call it waited for, r.pc, has ended with `out`
change_card(r, out) ==
    LET steps == Append(r.steps, Step(r.pc, out))
    IN  IF ~out.ok
        THEN \* except stripe.CardError as e: data = {"error": smart_str(e)}
             IF out.error.type = "CardError"
             THEN [r EXCEPT !.pc = "done", !.steps = steps,
                            !.data = [error |-> out.error.msg]]
             ELSE [r EXCEPT !.pc = "done", !.steps = steps,
                            !.raised = out.error.type]
        ELSE IF r.pc = "update_card"
        THEN [r EXCEPT !.pc = IF r.send_invoice THEN "send_invoice"
                              ELSE "retry_unpaid_invoices",
                       !.steps = steps]
        ELSE IF r.pc = "send_invoice"
        THEN [r EXCEPT !.pc = "retry_unpaid_invoices", !.steps = steps]
        ELSE [r EXCEPT !.pc = "done", !.steps = steps]

\* the customers once update_card has stored the card of an accepted token
CardStored(c, user, out) == [c EXCEPT !.fingerprint[user] = out.value]

\* a change_card request arrives
ChangeCardReceive ==
    \E r \in Requests, user \in Users, stripe_token \in Tokens :
        /\ card.req[r].pc \in {"idle", "done"}
        /\ card' = [card EXCEPT !.req[r] = change_card_begin(card, user, stripe_token)]
        /\ UNCHANGED <<db, stripe, last, synced, report, web, flight, arrived>>

\* the call a change_card request waits for ends
ChangeCardStep ==
    \E r \in Requests :
        LET q == card.req[r]
        IN  /\ q.pc \in {"update_card", "send_invoice", "retry_unpaid_invoices"}
            /\ \E out \in IF q.pc = "update_card"
                           THEN UpdateCardOutcomes(q.stripe_token)
                           ELSE ChargeOutcomes :
                   card' = [(IF q.pc = "update_card" /\ out.ok
                             THEN CardStored(card, q.user, out) ELSE card)
                            EXCEPT !.req[r] = change_card(q, out)]
            /\ UNCHANGED <<db, stripe, last, synced, report, web, flight, arrived>>

(* the views subscribe, change_plan and cancel: each reads
   request.user.customer and then waits for every call it makes of the
   processor, while other requests run *)

\* the request has been answered with `data`, or `raised` has left the
\* view: the response goes out and the request is over
Responds(c, q, data, raised) == [c |-> c, q |-> NoView]

\* the view goes on to wait for the call `pc`
Waits(c, q, pc) == [c |-> c, q |-> [q EXCEPT !.pc = pc]]

\* except stripe.StripeError as e: the error goes into the response
ViewError(c, q, out) == Responds(c, q, [error |-> out.error.msg], "")

\* a request of a view arrives with its POST data; an invalid form of
\* subscribe is answered at once, with form.errors
view_begin(c, view, user, valid, stripe_token, plan) ==
    LET q == [NoView EXCEPT !.view = view, !.user = user, !.valid = valid,
                            !.stripe_token = stripe_token, !.plan = plan]
    IN  IF view = "subscribe" /\ ~valid
        THEN Responds(c, q, [error |-> <<"form", "errors">>], "")
        ELSE Waits(c, q, "customer")

\* subscribe after the customer is in hand: update_card for a token, then
\* customer.subscribe
subscribe_card(c, q) ==
    IF q.stripe_token # "" THEN Waits(c, q, "update_card") ELSE Waits(c, q, "subscribe")

\* views.subscribe(request) at request.user.customer, or answered `out` by
\* the call it waits for: Customer.create for a user without a customer,
\* update_card for a token, customer.subscribe
subscribe(c, q, out) ==
    CASE q.pc = "customer" ->
            IF q.user \in c.customers THEN subscribe_card(c, q)
            ELSE Waits(c, q, "create")
      [] q.pc = "create" ->
            IF ~out.ok THEN ViewError(c, q, out)
            ELSE subscribe_card([c EXCEPT !.customers = @ \cup {q.user}], q)
      [] q.pc = "update_card" ->
            IF ~out.ok THEN ViewError(c, q, out)
            ELSE Waits(CardStored(c, q.user, out), q, "subscribe")
      [] q.pc = "subscribe" ->
            IF ~out.ok THEN ViewError(c, q, out)
            ELSE Responds([c EXCEPT !.plan[q.user] = q.plan], q, <<>>, "")

\* views.change_plan(request) at request.user.customer.can_charge(), or
\* answered `out` by customer.subscribe
change_plan(c, q, out) ==
    CASE q.pc = "customer" ->
            IF q.user \notin c.customers THEN Responds(c, q, <<>>, "DoesNotExist")
            ELSE IF q.valid /\ c.fingerprint[q.user] # "" THEN Waits(c, q, "subscribe")
            ELSE IF c.fingerprint[q.user] = ""
            THEN Responds(c, q, [error |-> <<"You", "don't", "have", "an", "active",
                                            "payment", "method.">>], "")
            ELSE Responds(c, q, [error |-> <<"form", "errors">>], "")
      [] q.pc = "subscribe" ->
            IF ~out.ok THEN ViewError(c, q, out)
            ELSE Responds([c EXCEPT !.plan[q.user] = q.plan], q, <<>>, "")

\* views.cancel(request) at request.user.customer, or answered `out` by
\* customer.cancel()
cancel(c, q, out) ==
    CASE q.pc = "customer" ->
            IF q.user \notin c.customers THEN Responds(c, q, <<>>, "DoesNotExist")
            ELSE Waits(c, q, "cancel")
      [] q.pc = "cancel" ->
            IF ~out.ok THEN ViewError(c, q, out)
            ELSE Responds([c EXCEPT !.plan[q.user] = ""], q, <<>>, "")

\* how the call a view waits for may end
ViewOutcomes(q) ==
    CASE q.pc = "create" -> CustomerCreateOutcomes
      [] q.pc = "update_card" -> UpdateCardOutcomes(q.stripe_token)
      [] q.pc = "subscribe" -> SubscribeOutcomes
      [] q.pc = "cancel" -> CancelOutcomes
      [] OTHER -> {NotAsked}

\* a request of one of the views arrives while no other of them is served
ViewReceive(view) ==
    \E user \in Users, valid \in BOOLEAN, plan \in PlanIds :
        \E stripe_token \in IF view = "subscribe" THEN {"", "tok_1"} ELSE {""} :
            /\ view = "cancel" => valid
            /\ card.view.pc = "idle"
            /\ LET x == view_begin(card, view, user, valid, stripe_token, plan)
               IN  card' = [x.c EXCEPT !.view = x.q]
            /\ UNCHANGED <<db, stripe, last, synced, report, web, flight, arrived>>

SubscribeReceive == ViewReceive("subscribe")

ChangePlanReceive == ViewReceive("change_plan")

CancelReceive == ViewReceive("cancel")

\* the code of the view a request is in
ViewCode(c, q, out) ==
    CASE q.view = "subscribe" -> subscribe(c, q, out)
      [] q.view = "change_plan" -> change_plan(c, q, out)
      [] q.view = "cancel" -> cancel(c, q, out)

\* the next step of the request of the view
ViewStep(view) ==
    /\ card.view.view = view
    /\ card.view.pc # "idle"
    /\ \E out \in ViewOutcomes(card.view) :
          LET x == ViewCode(card, card.view, out)
          IN  card' = [x.c EXCEPT !.view = x.q]
    /\ UNCHANGED <<db, stripe, last, synced, report, web, flight, arrived>>

SubscribeStep == ViewStep("subscribe")

ChangePlanStep == ViewStep("change_plan")

CancelStep == ViewStep("cancel")

\* users with and without a customer, customers with and without a card
CardStates ==
    {c \in {[NoCards EXCEPT !.customers = cs, !.fingerprint = f] :
               cs \in SUBSET Users, f \in [Users -> {"", "fp_0"}]} :
        \A u \in Users \ c.customers : c.fingerprint[u] = ""}

InitCards ==
    /\ db = EmptyDb
    /\ stripe = EmptyProcessor({})
    /\ last = Start
    /\ synced = [i \in PlanIds |-> None]
    /\ report = NoReport
    /\ web = NoRequests
    /\ card \in CardStates
    /\ flight = NoFlights
    /\ arrived = 0

NextCards ==
    \/ ChangeCardReceive
    \/ ChangeCardStep
    \/ SubscribeReceive
    \/ SubscribeStep
    \/ ChangePlanReceive
    \/ ChangePlanStep
    \/ CancelReceive
    \/ CancelStep

SpecCards == InitCards /\ [][NextCards]_vars

Next ==
    \/ ProcessorPlanChanged
    \/ ProcessorSkuChanged
    \/ ProcessorInvoiceChanged
    \/ ProcessorInvoiceClosed
    \/ SyncPlan
    \/ SyncPlans
    \/ SyncSku
    \/ SyncSkus
    \/ SyncSkusFromProduct
    \/ SyncInvoice
    \/ SyncInvoiceItems
    \/ SyncInvoicesForCustomer
    \/ Steps
    \/ SkusCreate
    \/ SkusCreateAnswered
    \/ SkusRetrieve
    \/ InvoicesCreate
    \/ InvoicesRetrieve
    \/ CreateAndPay
    \/ CreateAndPayAnswered
    \/ Pay
    \/ PayAnswered
    \/ DeleteDraftedInvoice
    \/ DeleteDraftedInvoiceAnswered
    \/ GetRange
    \/ StartedDuring
    \/ WebhookReceive
    \/ WebhookCheck
    \/ WebhookDuplicate
    \/ WebhookCreate
    \/ WebhookValidate
    \/ WebhookProcess
    \/ WebhookRespond
    \/ ChangeCardReceive
    \/ ChangeCardStep
    \/ SubscribeReceive
    \/ SubscribeStep
    \/ ChangePlanReceive
    \/ ChangePlanStep
    \/ CancelReceive
    \/ CancelStep

Spec == Init /\ [][Next]_vars

(* ------------------------------------------- sync against a fixed processor *)

\* the invoices the processor may hold and hand over: open, charged or closed,
\* of each draft
HeldInvoices ==
    LET open == {NewInvoice(i, c, x.lines, x.subscription) :
                    i \in InvoiceIds, c \in CustomerIds, x \in Drafts}
    IN  open \cup {PaidInvoice(inv) : inv \in open}
             \cup {[inv EXCEPT !.closed = TRUE] : inv \in open}

\* sequences of at most two SKUs of different ids
SkuLists ==
    {<<>>} \cup {<<a>> : a \in SkuPayloads}
           \cup {<<a, b>> : a \in {p \in SkuPayloads : p.id = "sku_1"},
                            b \in {p \in SkuPayloads : p.id = "sku_2"}}

\* processors that hold plans, or SKUs, or an invoice beside a plan
ProcessorStates ==
    LET subs == {{}, {Subscription1}}
        gold == CHOOSE p \in PlanPayloads :
                    p.amount = MaxAmount /\ p.currency = Some("usd") /\ p.tiers = <<>>
    IN  {[EmptyProcessor(sb) EXCEPT !.plans = pl] :
            sb \in subs, pl \in {<<>>} \cup {<<p>> : p \in PlanPayloads}}
        \cup {[EmptyProcessor({}) EXCEPT !.skus = sk] : sk \in SkuLists}
        \cup {[EmptyProcessor(sb) EXCEPT
                 !.plans = pl, !.invoices = <<inv>>,
                 !.charges = IF inv.charge = None THEN {} ELSE {inv.charge[1]}] :
                sb \in subs, pl \in {<<>>, <<gold>>}, inv \in HeldInvoices}

\* a processor that holds a tiered plan, one that holds two SKUs, and those
\* that hold the customer's subscription and an invoice, open or charged
SyncedProcessors ==
    LET tiered == CHOOSE p \in PlanVersions : Len(p.tiers) = MaxTiers
        gold == CHOOSE p \in PlanVersions : p.tiers = <<>>
        sku(i, a) == CHOOSE p \in SkuPayloads :
                        p.id = i /\ p.product = "prod_1" /\ p.active = a
                        /\ p.price = MaxAmount
        open == NewInvoice("in_1", "cus_1", <<SetupItem, SubscriptionLine>>, Some("sub_1"))
    IN  {[EmptyProcessor({}) EXCEPT !.plans = <<tiered>>],
         [EmptyProcessor({}) EXCEPT !.skus = <<sku("sku_1", TRUE), sku("sku_2", FALSE)>>],
         [EmptyProcessor({Subscription1}) EXCEPT !.plans = <<gold>>, !.invoices = <<open>>],
         [EmptyProcessor({Subscription1}) EXCEPT
             !.invoices = <<PaidInvoice(open)>>, !.charges = {ChargeOf("in_1")}]}

\* an empty local store beside a processor of ProcessorStates
InitRetrieve ==
    /\ db = EmptyDb
    /\ stripe \in ProcessorStates
    /\ last = Start
    /\ synced = [i \in PlanIds |-> None]
    /\ report = NoReport
    /\ web = NoRequests
    /\ card = NoCards
    /\ flight = NoFlights
    /\ arrived = 0

InitSync ==
    /\ db = EmptyDb
    /\ stripe \in SyncedProcessors
    /\ last = Start
    /\ synced = [i \in PlanIds |-> None]
    /\ report = NoReport
    /\ web = NoRequests
    /\ card = NoCards
    /\ flight = NoFlights
    /\ arrived = 0

\* the sync routines, called while others are in flight
NextSync ==
    \/ SyncPlan
    \/ SyncPlans
    \/ SyncSku
    \/ SyncSkus
    \/ SyncSkusFromProduct
    \/ SyncInvoice
    \/ SyncInvoiceItems
    \/ SyncInvoicesForCustomer
    \/ Steps

SpecSync == InitSync /\ [][NextSync]_vars

\* the retrieve operations against a fixed processor
NextRetrieve == SkusRetrieve \/ InvoicesRetrieve

SpecRetrieve == InitRetrieve /\ [][NextRetrieve]_vars

(* ----------------------------------------------- sync from any prior store *)

\* a store in which two Invoice rows share a stripe_id, the store for which
\* sync_invoice_from_stripe_data catches MultipleObjectsReturned
TwoInvoiceRows ==
    LET stripe_invoice == NewInvoice("in_1", "cus_1", <<ProratedItem>>, None)
        c == First(EmptyDb.customers)
        row == InvoiceDefaults(stripe_invoice, c, None, None)
    IN  [EmptyDb EXCEPT !.invoices =
            {[pk |-> k, stripe_id |-> "in_1"] @@ row : k \in {1, 2}}]

\* an empty store beside a processor that holds a plan, SKUs or the charged
\* invoice, and the store of two Invoice rows beside this last processor
InitPrior ==
    /\ \/ db = EmptyDb /\ stripe \in {s \in SyncedProcessors :
                                           s.invoices = <<>> \/ s.charges # {}}
       \/ db = TwoInvoiceRows /\ stripe \in {s \in SyncedProcessors : s.charges # {}}
    /\ last = Start
    /\ synced = [i \in PlanIds |-> None]
    /\ report = NoReport
    /\ web = NoRequests
    /\ card = NoCards
    /\ flight = NoFlights
    /\ arrived = 0

\* the processor's plan gets another tier schedule
PlanTiersChanged ==
    /\ stripe.plans # <<>>
    /\ \E p \in PlanVersions : p.tiers # <<>> /\ p.currency = Some("usd")
                                /\ stripe' = [stripe EXCEPT !.plans = <<p>>]
    /\ stripe' # stripe
    /\ last' = Start
    /\ UNCHANGED <<db, synced, report, web, card, flight, arrived>>

\* the routines that are to be idempotent, called while others are in flight
\* and while the processor's plan changes
NextPrior ==
    \/ PlanTiersChanged
    \/ SyncPlan
    \/ SyncSku
    \/ SyncInvoice
    \/ Steps

SpecPrior == InitPrior /\ [][NextPrior]_vars

(* ================================================================ claims *)

StripPk(row) == [f \in DOMAIN row \ {"pk"} |-> row[f]]

\* the rows of `rows` in key order, without their keys
Values(rows) == LET q == ByPk(rows) IN [k \in 1..Len(q) |-> StripPk(q[k])]

\* the local store with the keys of the rows a sync deletes and re-creates
\* (tiers, line items) left out
Rows(d) ==
    [d EXCEPT
       !.tiers = {[plan |-> p.pk, tiers |-> Values({t \in d.tiers : t.plan = p.pk})] :
                     p \in d.plans},
       !.items = {[invoice |-> i.pk,
                   items |-> Values({x \in d.items : x.invoice = i.pk})] :
                     i \in d.invoices}]

Unique(table) == \A a \in table, b \in table : a.stripe_id = b.stripe_id => a = b

NoDuplicates(d) ==
    /\ Unique(d.plans) /\ Unique(d.skus) /\ Unique(d.invoices)
    /\ Unique(d.charges) /\ Unique(d.subscriptions)
    /\ \A i \in d.invoices : Unique({x \in d.items : x.invoice = i.pk})

\* the second application ends as the first did and leaves its rows
SameRows(once, twice) ==
    /\ twice.raised = once.raised
    /\ Rows(twice.db) = Rows(once.db)

SameAsOnce(once, twice) == SameRows(once, twice) /\ NoDuplicates(twice.db)

\* as SameAsOnce, with no two rows of one stripe_id asked only of a store
\* `d` that held none before
SameAsOnceFrom(d, once, twice) ==
    SameRows(once, twice) /\ (NoDuplicates(d) => NoDuplicates(twice.db))

ExpectedTiers(p) ==
    [k \in 1..Len(p.tiers) |->
        [amount |-> convert_amount_for_db(p.tiers[k].amount, p.currency),
         flat_amount |-> convert_amount_for_db(p.tiers[k].flat_amount, p.currency),
         up_to |-> p.tiers[k].up_to]]

TiersOf(d, row) ==
    LET q == ByPk({t \in d.tiers : t.plan = row.pk})
    IN  [k \in 1..Len(q) |-> [amount |-> q[k].amount, flat_amount |-> q[k].flat_amount,
                              up_to |-> q[k].up_to]]

HasFields(row, fields) == \A f \in DOMAIN fields : row[f] = fields[f]

\* no call of sync_plan or sync_plans is on its way
NoPlanSyncInFlight == \A r \in Requests : flight[r].op \notin {"sync_plan", "sync_plans"}

\* C2: last sync wins for plans.  After any sequence of sync_plan calls, when
\* each has returned, the Plan row of a stripe_id has exactly the field
\* values and exactly the tier list of the payload of the call that returned
\* last for that id, also when that payload has no tiers and an earlier one
\* had some.
LastSyncWins ==
    \A i \in PlanIds :
        synced[i] # None /\ NoPlanSyncInFlight =>
            /\ Cardinality(Matching(db.plans, i)) = 1
            /\ \A row \in Matching(db.plans, i) :
                  /\ HasFields(row, PlanDefaults(synced[i][1]))
                  /\ TiersOf(db, row) = ExpectedTiers(synced[i][1])

\* the local rows of a stripe_id mirror what the processor holds for it
MirrorsInvoice(d, stripe_invoice) ==
    \E row \in d.invoices :
        /\ row.stripe_id = stripe_invoice.id
        /\ row.paid = stripe_invoice.paid
        /\ row.closed = stripe_invoice.closed
        /\ row.attempted = stripe_invoice.attempted
        /\ row.amount_due = convert_amount_for_db(stripe_invoice.amount_due,
                                                  stripe_invoice.currency)
        /\ row.total = convert_amount_for_db(stripe_invoice.total, stripe_invoice.currency)
        /\ {x.stripe_id : x \in {y \in d.items : y.invoice = row.pk}}
             = {stripe_invoice.lines.data[k].id :
                    k \in 1..Len(stripe_invoice.lines.data)}

MirrorsSku(d, stripe_sku) ==
    \E row \in d.skus :
        /\ row.stripe_id = stripe_sku.id
        /\ row.active = stripe_sku.active
        /\ row.price = convert_amount_for_db(stripe_sku.price, stripe_sku.currency)

Count(calls, api) == Cardinality({k \in 1..Len(calls) : calls[k].api = api})

\* C3: every operation of the action layer hands what the processor
\* answered to the sync layer before it returns.  When invoices.create,
\* invoices.create_and_pay, invoices.pay or skus.create has returned after
\* the processor answered with an object, the local mirror holds that object.
ActionsSyncTheirResult ==
    /\ last.op = "invoices.create" /\ last.raised = "" =>
          MirrorsInvoice(db, last.answers[1].value)
    /\ last.op = "invoices.create_and_pay" /\ last.raised = "" /\ last.answers[1].ok =>
          MirrorsInvoice(db, IF Count(last.calls, "Invoice.pay") > 0
                             THEN last.answers[2].value ELSE last.answers[1].value)
    /\ last.op = "invoices.pay" /\ last.raised = "" /\ last.calls # <<>> =>
          MirrorsInvoice(db, last.answers[2].value)
    /\ last.op = "skus.create" /\ last.raised = "" =>
          MirrorsSku(db, last.answers[1].value)

SyncOps ==
    {"sync_plan", "sync_plans", "sync_sku_from_stripe_data", "sync_skus",
     "sync_skus_from_product", "sync_invoice_from_stripe_data",
     "sync_invoice_items", "sync_invoices_for_customer"}

\* the processor calls that only read
ReadApis ==
    {"Plan.list", "SKU.list", "Product.retrieve", "Customer.retrieve", "Invoice.list",
     "Invoice.retrieve", "Charge.retrieve", "Subscription.retrieve"}

\* C4: sync is one-way.  Every step of a sync routine, from its call to its
\* return, leaves the processor's records as they were, and the calls it has
\* made by then are retrieve and list calls.
SyncIsOneWay ==
    [][/\ last'.op \in SyncOps =>
             /\ stripe' = stripe
             /\ \A k \in 1..Len(last'.calls) : last'.calls[k].api \in ReadApis
       /\ \A r \in Requests :
             flight'[r] # flight[r] /\ flight'[r].op \in SyncOps =>
                 /\ stripe' = stripe
                 /\ \A k \in 1..Len(flight'[r].calls) :
                        flight'[r].calls[k].api \in ReadApis]_vars

\* a sync has mirrored an invoice the processor still holds open
SyncedFromProcessor ==
    /\ last.op = "sync_invoices_for_customer"
    /\ last.raised = ""
    /\ Len(last.calls) >= 2
    /\ \E row \in db.invoices : ~row.paid
    /\ \E k \in 1..Len(stripe.invoices) : ~stripe.invoices[k].paid

\* C5: invoices.pay returns True if the invoice was paid and False if it
\* was unable to be paid.  A pay that returns at once was handed a paid or
\* closed invoice: it returns False, has called nothing and has changed
\* nothing.  A pay that goes on was handed an invoice neither paid nor
\* closed, and when it ends it has returned True, has asked the processor to
\* pay once, and the local invoice mirrors what the processor answered.
PayReturns ==
    [][/\ last'.op = "invoices.pay" /\ last'.answers = <<>> =>
             LET inv == CHOOSE i \in db.invoices : i.stripe_id = last'.arg[1]
             IN  /\ inv.paid \/ inv.closed
                 /\ last'.raised = "" /\ last'.result = Some(FALSE)
                 /\ last'.calls = <<>>
                 /\ db' = db /\ stripe' = stripe
       /\ \A r \in Requests :
             LET f == flight[r]
                 g == flight'[r]
             IN  /\ f.pc = "idle" /\ g.op = "invoices.pay" =>
                       /\ ~g.invoice[1].paid /\ ~g.invoice[1].closed
                       /\ db' = db /\ stripe' = stripe
                 /\ f.op = "invoices.pay" /\ g.pc = "idle" =>
                       /\ last'.op = "invoices.pay"
                       /\ last'.raised = ""
                       /\ last'.result = Some(TRUE)
                       /\ Count(last'.calls, "Invoice.pay") = 1
                       /\ MirrorsInvoice(db', last'.answers[2].value)]_vars

\* C6: create_and_pay returns True if the invoice was created and False if
\* there was an error creating or paying it, and asks the processor to pay
\* only an invoice whose amount_due is above zero.
CreateAndPayReturns ==
    last.op = "invoices.create_and_pay" =>
        LET created == last.answers[1].ok
            due == created /\ last.answers[1].value.amount_due > 0
            failed == ~created \/ (due /\ ~last.answers[2].ok)
        IN  /\ last.raised = ""
            /\ last.result = Some(~failed)
            /\ Count(last.calls, "Invoice.pay") = IF due THEN 1 ELSE 0

\* C7: the retrieve operations of skus and invoices.  With an empty id they
\* return nothing without a processor call; when the processor answers that
\* there is no such object they return nothing; any other processor error
\* reaches the caller; otherwise they return the processor's object.
RetrieveAnswers ==
    last.op \in {"skus.retrieve", "invoices.retrieve"} =>
        LET kind == IF last.op = "skus.retrieve" THEN "sku" ELSE "invoice"
            out == last.answers[1]
        IN  IF last.arg = None \/ last.arg = Some("")
            THEN last.result = None /\ last.raised = "" /\ last.calls = <<>>
            ELSE /\ Len(last.calls) = 1
                 /\ out.ok => last.result = Some(out.value) /\ last.raised = ""
                 /\ ~out.ok =>
                       IF out.error = NoSuch(kind, last.arg[1])
                       THEN last.result = None /\ last.raised = ""
                       ELSE last.result = None /\ last.raised = out.error.type

\* a retrieve has returned nothing for an id the processor does not know
NotFoundReturnedNothing ==
    /\ last.op = "skus.retrieve"
    /\ last.arg # None /\ last.arg # Some("")
    /\ ~last.answers[1].ok
    /\ last.answers[1].error = NoSuch("sku", last.arg[1])
    /\ last.result = None /\ last.raised = ""

\* C8: skus.create honours its `active` argument: the SKU the processor
\* created, and its local row, are active exactly when `active` was true.
CreateHonoursActive ==
    last.op = "skus.create" /\ last.raised = "" =>
        /\ last.answers[1].value.active = last.arg[1].active
        /\ \E row \in db.skus :
              /\ row.stripe_id = last.answers[1].value.id
              /\ row.active = last.arg[1].active

\* the last item of a payload that has the given id
LastOf(items, id) ==
    items[Max({k \in 1..Len(items) : items[k].id = id})]

\* the row x of the store d carries the values of the line item: its own
\* fields, the local plan of the item's plan, and a subscription only for a
\* subscription line, whose id it then has
Carries(d, x, item) ==
    /\ x.amount = convert_amount_for_db(item.amount, item.currency)
    /\ x.currency = item.currency
    /\ x.proration = item.proration
    /\ x.description = OrEmpty(item.description)
    /\ x.line_type = item.type
    /\ x.period_start = convert_tstamp(item.period.start)
    /\ x.period_end = convert_tstamp(item.period.end)
    /\ x.quantity = item.quantity
    /\ item.type # "subscription" => x.subscription = None
    /\ x.subscription # None =>
          ByKey(d.subscriptions, x.subscription[1]).stripe_id = item.id
    /\ item.plan = None /\ item.type # "subscription" => x.plan = None
    /\ x.plan # None => \E p \in d.plans : p.pk = x.plan[1]

\* C9: when sync_invoice_items(invoice, items) has returned, the invoice's
\* InvoiceItem rows are exactly those of the payload: one row for each
\* distinct stripe_id of the payload, carrying that item's values, and no
\* row of an item that is not in the payload.
ItemsAreThePayload ==
    last.op = "sync_invoice_items" /\ last.raised = "" =>
        LET items == last.arg[1].items
            rows == {x \in db.items : x.invoice = last.arg[1].invoice}
            ids == {items[k].id : k \in 1..Len(items)}
        IN  /\ {x.stripe_id : x \in rows} = ids
            /\ Cardinality(rows) = Cardinality(ids)
            /\ \A x \in rows : Carries(db, x, LastOf(items, x.stripe_id))

\* instants around the months asked about
Calendar ==
    {datetime(y, m, d, h) : y \in FirstYear..(FirstYear + MaxYearSpan + 1),
                            m \in 1..12, d \in {1, 15, 28}, h \in {0, 23}}

\* C10: get_range(year, month) is the first instant of that month in UTC and
\* the first instant of the month after it, which for December is January of
\* year + 1; an instant lies in the month exactly when it is at or after the
\* first and before the second, so started_during(year, month) counts the
\* customers whose subscription started in that month, December included:
\* of the customers of setUp, 12 for January 2013, none for April, one for
\* December.
RangeIsTheMonth ==
    report.asked # None =>
        LET year == report.asked[1].year
            month == report.asked[1].month
            range == report.range[1]
        IN  /\ range[1] = datetime(year, month, 1, 0)
            /\ range[2] = IF month = 12 THEN datetime(year + 1, 1, 1, 0)
                          ELSE datetime(year, month + 1, 1, 0)
            /\ range[1].tzinfo = "UTC" /\ range[2].tzinfo = "UTC"
            /\ \A t \in Calendar :
                  (t.year = year /\ t.month = month)
                      <=> (~Before(t, range[1]) /\ Before(t, range[2]))
            /\ report.op = "started_during" =>
                  /\ report.count =
                        Cardinality({i \in DOMAIN report.starts :
                                        /\ report.starts[i].year = year
                                        /\ report.starts[i].month = month})
                  /\ (report.starts = SetUpStarts /\ year = 2013) =>
                        report.count = IF month = 1 THEN 12
                                       ELSE IF month = 12 THEN 1 ELSE 0

\* the December customer of setUp has been counted, alone
DecemberCounted ==
    /\ report.op = "started_during"
    /\ report.starts = SetUpStarts
    /\ report.asked = Some([year |-> 2013, month |-> 12])
    /\ report.count = 1

\* a request has seen no Event of its id and has not yet created one
AboutToCreate(r) == web.req[r].pc = "create"

\* C11: under any interleaving of webhook requests that carry the same event
\* id, at most one Event row of that stripe_id is created and the event is
\* processed at most once: no other request's create comes between a
\* request's exists-check and its create.
WebhookOnce ==
    \A id \in EventIds :
        /\ Cardinality({e \in web.events : e.stripe_id = id}) <= 1
        /\ Cardinality({k \in 1..Len(web.runs) : web.runs[k] = id}) <= 1
        /\ \A r \in Requests :
              AboutToCreate(r) /\ web.req[r].data[1].id = id => ~EventExists(web, id)

\* C12: change_card runs update_card, then send_invoice only if the card
\* fingerprint was empty before the update, then retry_unpaid_invoices; a
\* step runs only after every earlier one has succeeded, a card error ends
\* the request with the error in the response, and the unpaid invoices are
\* retried only after the card update has succeeded.  It holds of every
\* request, whatever other requests do meanwhile; the fingerprint is the one
\* the customer had when the request arrived.
CardStepsInOrder ==
    [][\A r \in Requests :
          LET before == card.req[r]
              q == card'.req[r]
              plan == <<"update_card">>
                          \o (IF q.send_invoice THEN <<"send_invoice">> ELSE <<>>)
                          \o <<"retry_unpaid_invoices">>
              ran == q.steps
              n == Len(ran)
          IN  /\ (q # before /\ q.pc = "update_card") =>
                    /\ n = 0
                    /\ q.send_invoice = (card.fingerprint[q.user] = "")
              /\ (q # before /\ n = 1) =>
                    IF ran[1].out.ok
                    THEN card'.fingerprint[q.user] = ran[1].out.value
                    ELSE card'.fingerprint = card.fingerprint
              /\ n >= 1 =>
                    /\ n <= Len(plan)
                    /\ \A k \in 1..n : ran[k].name = plan[k]
                    /\ \A k \in 1..(n - 1) : ran[k].out.ok
                    /\ IF ran[n].out.ok
                       THEN /\ q.raised = "" /\ q.data = <<>>
                            /\ q.pc = IF n < Len(plan) THEN plan[n + 1] ELSE "done"
                       ELSE /\ q.pc = "done"
                            /\ ran[n].out.error.type = "CardError" =>
                                  /\ q.raised = ""
                                  /\ q.data = [error |-> ran[n].out.error.msg]
                    /\ (\E k \in 1..n : ran[k].name = "retry_unpaid_invoices") =>
                          ran[1].out.ok]_vars

\* two requests of one customer without a card arrived together: both stored
\* a card, and the invoice one of them then sent met a card error, which its
\* response carries without a retry of the unpaid invoices
InvoiceDeclinedAfterUpdate ==
    \E r \in Requests, o \in Requests :
        LET q == card.req[r]
        IN  /\ r # o
            /\ q.pc = "done"
            /\ Len(q.steps) = 2
            /\ q.steps[1].out.ok
            /\ q.steps[2].name = "send_invoice"
            /\ ~q.steps[2].out.ok
            /\ q.data # <<>>
            /\ card.req[o].user = q.user
            /\ card.req[o].send_invoice
            /\ card.req[o].steps # <<>>
            /\ card.fingerprint[q.user] # ""

====
